---- MODULE Spec2Model ----
(***************************************************************************)
(* Social-network visualizer: the graph data model kept by the             *)
(* useNetworkData hook (nodes, links, categories), the handlers of the     *)
(* application shell that drive it, the load path of the hook and the      *)
(* register and network routes of the API server over its two stores.      *)
(***************************************************************************)
EXTENDS Integers, Sequences, FiniteSets, Bags, TLC

VARIABLES
  nodes,                    \* useNetworkData.js:6   list of person records
  links,                    \* useNetworkData.js:7   list of link records
  customGroups,             \* useNetworkData.js:8   key -> {label, color}
  defaultColorOverrides,    \* useNetworkData.js:9   key -> color
  deletedDefaultCategories, \* useNetworkData.js:10  list of hidden default keys
  now,                      \* the value Date.now() returns
  last,                     \* the handler that ran last, its arguments and result
  events,                   \* how many handlers have run
  db,                       \* api/index.js:19-26  TRUE when a database is configured
  users,                    \* the users table / memoryStore.users
  networkData,              \* the network_data table / memoryStore.networkData
  nextUserId,               \* memoryStore.nextUserId / the users id sequence
  nextNetworkId,            \* memoryStore.nextNetworkId / the network_data id sequence
  requests,                 \* the requests received, each with its position
  lastSave,                 \* user id -> the data of the last save applied for it
  actor,                    \* the user id the last server step acted for
  reply,                    \* the last response sent
  isAuthenticated,          \* useNetworkData.js:5   the argument of the hook
  isLoaded,                 \* useNetworkData.js:11
  loadPc,                   \* where loadData is: "mount", "waiting", "done"
  localItem,                \* localStorage['social-network-data']
  isSaving,                 \* useNetworkData.js:12
  lastSaved,                \* useNetworkData.js:13  a time, or NoDate
  inFlight,                 \* the save requests awaited by saveToServer
  lastCall,                 \* the snapshot handed to the last saveToServer call
  pendingChangesRef,        \* useNetworkData.js:15
  saveTimeoutRef,           \* useNetworkData.js:14  id of the timeout set last
  timers,                   \* the timeouts set and neither fired nor cleared
  nextTimerId,              \* the id setTimeout returns next
  burstSaves,               \* debounced save calls since the last change
  centeredNodeId,           \* App.jsx:44  the node shown as the center
  selectedNode,             \* App.jsx:45  the node selected, or NoNode
  selectedGroup,            \* App.jsx:46  the group selected, or NoGroup
  previousNodes,            \* NetworkGraph previousNodesRef: id -> position
  nodesCopy,                \* the nodes of the simulation, seeded and placed
  alphaTarget,              \* simulation.alphaTarget(), in tenths
  alpha,                    \* simulation.alpha(), in tenths; 0 is below alphaMin
  running,                  \* TRUE while the timer of the simulation runs
  dragged,                  \* index in nodesCopy of the node dragged, or 0
  linksCopy,                \* the links the layout ran on
  linkStyles,               \* stroke and opacity of each path drawn for linksCopy
  resetCalls,               \* resetNetworkData requests awaited by resetData
  passwordResetTokens,      \* api/index.js: the password_reset_tokens table
  passwords,                \* api/index.js: users.password, by user id
  serverNow,                \* new Date() of the server, in hours
  authRequests,             \* forgot-password and reset-password requests received
  nextToken,                \* the token crypto.randomBytes gives next
  bridges,                  \* NetworkGraph bridgeData, or NoBridges when not rendered
  stats                     \* NetworkHealthDashboard stats, or NoStats when not rendered

clientVars == <<nodes, links, customGroups, defaultColorOverrides,
                deletedDefaultCategories, now, last, events>>

authVars == <<passwordResetTokens, passwords, serverNow, authRequests, nextToken>>

serverVars == <<db, users, networkData, nextUserId, nextNetworkId,
                requests, lastSave, actor, reply, authVars>>

loadVars == <<isAuthenticated, isLoaded, loadPc, localItem, resetCalls>>

saveStatusVars == <<isSaving, lastSaved, inFlight, lastCall>>

saveTimerVars == <<pendingChangesRef, saveTimeoutRef, timers, nextTimerId, burstSaves>>

saveVars == <<saveStatusVars, saveTimerVars>>

appViewVars == <<centeredNodeId, selectedNode, selectedGroup>>

graphVars == <<previousNodes, nodesCopy, linksCopy, alphaTarget, alpha, running, dragged>>

styleVars == <<linkStyles>>

viewVars == <<appViewVars, graphVars, styleVars>>

memoVars == <<bridges, stats>>

vars == <<clientVars, serverVars, loadVars, saveVars, viewVars, memoVars>>

(***************************************************************************)
(* Bounds of the model.                                                    *)
(***************************************************************************)
MaxEvents == 2       \* handlers run in one behaviour
MaxClock == 1        \* Date.now() ranges over 0..MaxClock
MaxBulk == 2         \* most names in one bulk add
MaxRequests == 3     \* requests the server receives in one behaviour

(***************************************************************************)
(* Generic list helpers (Array.prototype.filter / map / some).             *)
(***************************************************************************)
FilterSeq(s, Keep(_)) == SelectSeq(s, Keep)

MapSeq(s, F(_)) == [i \in 1..Len(s) |-> F(s[i])]

SomeSeq(s, P(_)) == \E i \in 1..Len(s) : P(s[i])

Range(s) == {s[i] : i \in 1..Len(s)}

(***************************************************************************)
(* Persons, link endpoints and links.                                      *)
(* A link endpoint is stored either as a bare id (what the forms submit)   *)
(* or as a resolved node object carrying an id (what a force layout leaves *)
(* behind); the hook reads both through `link.source?.id || link.source`.  *)
(***************************************************************************)
SelfId == "me"

Person(id, name, group) == [id |-> id, name |-> name, group |-> group]

Bare(id) == [bare |-> id]
Resolved(id) == [node |-> [id |-> id]]

EndpointId(e) == IF "node" \in DOMAIN e THEN e.node.id ELSE e.bare

Link(source, target, strength) ==
  [source |-> source, target |-> target, strength |-> strength]

\* A snapshot: what is loaded, saved and sent.
Data(ns, ls, cg, dco, ddc) ==
  [nodes |-> ns, links |-> ls, customGroups |-> cg,
   defaultColorOverrides |-> dco, deletedDefaultCategories |-> ddc]

SourceId(l) == EndpointId(l.source)
TargetId(l) == EndpointId(l.target)

\* The unordered pair of person ids a link connects.
PairOf(l) == {SourceId(l), TargetId(l)}

\* (lSourceId === a && lTargetId === b) || (lSourceId === b && lTargetId === a)
Connects(l, a, b) ==
  \/ SourceId(l) = a /\ TargetId(l) = b
  \/ SourceId(l) = b /\ TargetId(l) = a

(***************************************************************************)
(* Snapshots the hook can be loaded with.                                  *)
(***************************************************************************)
\* api/index.js:38-41, the record the server creates for a new account.
defaultNodes == << Person(SelfId, "Me", "me") >>
defaultLinks == << >>

\* data/initialData.js, the sample network (details left out).
initialNodes ==
  << Person(SelfId, "Me", "me"),
     Person("mom", "Mom", "family"), Person("dad", "Dad", "family"),
     Person("sister", "Sarah", "family"), Person("brother", "Max", "family"),
     Person("boss", "Thomas", "work"), Person("colleague1", "Anna", "work"),
     Person("colleague2", "Michael", "work"), Person("colleague3", "Lisa", "work"),
     Person("bestfriend", "Chris", "friends"), Person("friend1", "Julia", "friends"),
     Person("friend2", "David", "friends"), Person("friend3", "Emma", "friends"),
     Person("neighbor", "Mr. Schmidt", "acquaintances"),
     Person("gym", "Fitness Tom", "acquaintances") >>

initialLinks ==
  << Link(Bare("me"), Bare("mom"), 9), Link(Bare("me"), Bare("dad"), 8),
     Link(Bare("me"), Bare("sister"), 8), Link(Bare("me"), Bare("brother"), 7),
     Link(Bare("mom"), Bare("dad"), 10), Link(Bare("sister"), Bare("brother"), 6),
     Link(Bare("mom"), Bare("sister"), 8), Link(Bare("mom"), Bare("brother"), 8),
     Link(Bare("dad"), Bare("sister"), 7), Link(Bare("dad"), Bare("brother"), 7),
     Link(Bare("me"), Bare("boss"), 5), Link(Bare("me"), Bare("colleague1"), 6),
     Link(Bare("me"), Bare("colleague2"), 5), Link(Bare("me"), Bare("colleague3"), 4),
     Link(Bare("boss"), Bare("colleague1"), 4), Link(Bare("boss"), Bare("colleague2"), 4),
     Link(Bare("boss"), Bare("colleague3"), 4),
     Link(Bare("colleague1"), Bare("colleague2"), 5),
     Link(Bare("colleague1"), Bare("colleague3"), 6),
     Link(Bare("me"), Bare("bestfriend"), 10), Link(Bare("me"), Bare("friend1"), 6),
     Link(Bare("me"), Bare("friend2"), 7), Link(Bare("me"), Bare("friend3"), 5),
     Link(Bare("bestfriend"), Bare("friend2"), 4), Link(Bare("friend1"), Bare("friend3"), 3),
     Link(Bare("me"), Bare("neighbor"), 2), Link(Bare("me"), Bare("gym"), 2),
     Link(Bare("brother"), Bare("colleague2"), 3),
     Link(Bare("bestfriend"), Bare("sister"), 4) >>

\* A persisted snapshot: a part of the sample network, one of whose links
\* was stored with resolved endpoints.
storedNodes ==
  << Person(SelfId, "Me", "me"), Person("mom", "Mom", "family"),
     Person("dad", "Dad", "family") >>
storedLinks ==
  << Link(Bare(SelfId), Bare("mom"), 9),
     Link(Resolved("mom"), Resolved("dad"), 10) >>

Snapshots ==
  { [nodes |-> defaultNodes, links |-> defaultLinks],
    [nodes |-> storedNodes, links |-> storedLinks] }

(***************************************************************************)
(* Inputs of the forms.                                                    *)
(***************************************************************************)
NoId == "<none>"              \* person.id absent (editPerson?.id undefined)
NoStrength == 0               \* connectionStrength null
FormStrengths == {5}          \* the strength slider of the add forms, left at its default
EditStrengths == {3}          \* the strength put in by the edit-link form (of 1..10)
RandomSuffixes == {"k3f", "x9q"}  \* Math.random().toString(36).substr(2, 9)
PersonNames == {"Alex"}       \* the name typed into the add-person form
EditNames == {"Sam"}          \* the name typed into the edit-person form
BulkNames == <<"Bo", "Cy", "Di", "Ed">>  \* the names typed into the bulk form


(***************************************************************************)
(* useNetworkData: the state updates of the mutation helpers, each as the  *)
(* function the hook hands to setNodes / setLinks.                         *)
(***************************************************************************)
\* addPerson, the id: person.id || `person-${Date.now()}`
newPersonId(person, t) ==
  IF person.id # NoId THEN person.id ELSE "person-" \o ToString(t)

\* addPerson: setNodes(prev => [...prev, newPerson])
addPersonNodes(prev, person, t) ==
  Append(prev, Person(newPersonId(person, t), person.name, person.group))

\* updatePerson: prev.map(node => node.id === id ? {...node, ...updates} : node)
updatePersonNodes(prev, id, updates) ==
  LET upd(node) == IF node.id = id
                   THEN Person(updates.id, updates.name, updates.group)
                   ELSE node
  IN  MapSeq(prev, upd)

\* deletePerson: the guard on the reserved id
deletePersonNeverRefused(id) == FALSE
deletePersonRefused(id) == id = SelfId

\* deletePerson: setNodes(prev => prev.filter(node => node.id !== id))
deletePersonNodes(prev, id) ==
  LET keep(node) == node.id # id IN FilterSeq(prev, keep)

\* deletePerson: setLinks(prev => prev.filter(sourceId !== id && targetId !== id))
deletePersonLinksBareOnly(prev, id) ==
  LET keep(link) == link.source # Bare(id) /\ link.target # Bare(id)
  IN  FilterSeq(prev, keep)
deletePersonLinks(prev, id) ==
  LET keep(link) == SourceId(link) # id /\ TargetId(link) # id
  IN  FilterSeq(prev, keep)

\* addLink: links.some(l => l connects link.source and link.target)
linkExists(ls, link) ==
  LET same(l) == Connects(l, link.source, link.target) IN SomeSeq(ls, same)

\* addLink: setLinks(prev => [...prev, link]); the form submits bare ids
addLinkLinks(prev, link) ==
  Append(prev, Link(Bare(link.source), Bare(link.target), link.strength))

\* updateLink: prev.map(link => connects ? {...link, strength} : link)
updateLinkLinks(prev, source, target, strength) ==
  LET upd(link) == IF Connects(link, source, target)
                   THEN [link EXCEPT !.strength = strength]
                   ELSE link
  IN  MapSeq(prev, upd)

\* deleteLink: prev.filter(link => !connects)
deleteLinkLinks(prev, source, target) ==
  LET keep(link) == ~Connects(link, source, target) IN FilterSeq(prev, keep)

\* bulkAddPeople, the id of one name:
\* `person-${Date.now()}-${Math.random().toString(36).substr(2, 9)}`
bulkPersonId(t, suffix) == "person-" \o ToString(t) \o "-" \o suffix

\* bulkAddPeople: newNodes, one per name, in order
bulkNewNodes(names, suffixes, group, t) ==
  [i \in 1..Len(names) |-> Person(bulkPersonId(t, suffixes[i]), names[i], group)]

\* connectionStrength || 5
strengthOrDefault(s) == IF s = NoStrength THEN 5 ELSE s

\* bulkAddPeople: newLinks, one per name when connectToMe
bulkNewLinks(newNodes, connectToMe, connectionStrength) ==
  IF connectToMe
  THEN [i \in 1..Len(newNodes) |->
          Link(Bare(SelfId), Bare(newNodes[i].id),
               strengthOrDefault(connectionStrength))]
  ELSE << >>

(***************************************************************************)
(* The record of the handler that ran last.                                *)
(***************************************************************************)
\* The client alone: no server in the picture.
NoReply == [kind |-> "none"]
serverIdle ==
  /\ db = FALSE
  /\ users = << >>
  /\ networkData = << >>
  /\ nextUserId = 1
  /\ nextNetworkId = 1
  /\ requests = << >>
  /\ lastSave = << >>
  /\ actor = 0
  /\ reply = NoReply
  /\ passwordResetTokens = << >>
  /\ passwords = << >>
  /\ serverNow = 0
  /\ authRequests = << >>
  /\ nextToken = 1

\* The hook after its load, signed in.
NoItem == [item |-> "none"]
loadDone ==
  /\ isAuthenticated = TRUE
  /\ isLoaded = TRUE
  /\ loadPc = "done"
  /\ localItem = NoItem
  /\ resetCalls = 0

Ran(op, a, b, ok, ids) == [op |-> op, a |-> a, b |-> b, ok |-> ok, ids |-> ids]

\* One more handler runs.
\* The shell shows its loading screen, and no form, until isLoaded.
event ==
  /\ isLoaded
  /\ events < MaxEvents /\ events' = events + 1
  /\ UNCHANGED <<serverVars, loadVars, saveStatusVars>>

(***************************************************************************)
(* useNetworkData: the debounced save effect.  It runs after a render in   *)
(* which one of nodes, links, the category state or isLoaded was set:      *)
(* the cleanup of the previous run clears the timeout in saveTimeoutRef,   *)
(* and, once loaded and unless the graph is empty, a new timeout is set    *)
(* that holds the snapshot of this render.                                 *)
(***************************************************************************)
NoDate == [date |-> "none"]
Date(t) == [time |-> t]
NoSnapshot == [snapshot |-> "none"]

Timer(id, snap) == [id |-> id, snap |-> snap]

\* clearTimeout(saveTimeoutRef.current)
clearTimeout(ts, id) == {t \in ts : t.id # id}

\* A debounce that leaves the earlier timeout running.
clearTimeoutNever(ts, id) == ts

\* if (saveTimeoutRef.current) clearTimeout(saveTimeoutRef.current)
clearSaveTimeout(ts, id) == clearTimeout(ts, id)

saveEffect(touched) ==
  IF ~touched
  THEN UNCHANGED saveTimerVars
  ELSE IF ~isLoaded' \/ (Len(nodes') = 0 /\ Len(links') = 0)
       THEN /\ timers' = clearSaveTimeout(timers, saveTimeoutRef)
            /\ UNCHANGED <<pendingChangesRef, saveTimeoutRef, nextTimerId, burstSaves>>
       ELSE /\ timers' = clearSaveTimeout(timers, saveTimeoutRef) \cup
                           {Timer(nextTimerId,
                                  Data(nodes', links', customGroups',
                                       defaultColorOverrides',
                                       deletedDefaultCategories'))}
            /\ saveTimeoutRef' = nextTimerId
            /\ nextTimerId' = nextTimerId + 1
            /\ pendingChangesRef' = TRUE
            /\ burstSaves' = 0

\* The hook as mounted: nothing saved, no timeout set.
saveIdle ==
  /\ isSaving = FALSE
  /\ lastSaved = NoDate
  /\ inFlight = EmptyBag
  /\ lastCall = NoSnapshot
  /\ pendingChangesRef = FALSE
  /\ saveTimeoutRef = 0
  /\ timers = {}
  /\ nextTimerId = 1
  /\ burstSaves = 0

\* The hook after the save that follows its load went through.
saveSettled ==
  /\ isSaving = FALSE
  /\ lastSaved = Date(0)
  /\ inFlight = EmptyBag
  /\ lastCall = Data(nodes, links, customGroups, defaultColorOverrides,
                     deletedDefaultCategories)
  /\ pendingChangesRef = FALSE
  /\ saveTimeoutRef = 1
  /\ timers = {}
  /\ nextTimerId = 2
  /\ burstSaves = 1

NodeIds(ns) == {ns[i].id : i \in 1..Len(ns)}

categoriesUnchanged ==
  UNCHANGED <<customGroups, defaultColorOverrides, deletedDefaultCategories>>

(***************************************************************************)
(* Handlers of the application shell (NetworkApp) and of its forms.        *)
(***************************************************************************)
\* The value a handler reads from Date.now(): the clock never runs backwards.
(***************************************************************************)
(* NetworkGraph: the layout effect.  It runs after a render in which one   *)
(* of nodes, links, customGroups or centeredNodeId was set, and when the   *)
(* graph is mounted after the load: the simulation of the run before is    *)
(* stopped, the position cache is cleared, every node is seeded by         *)
(* getInitialPosition, and the new simulation is stopped and ticked to     *)
(* rest by hand, which dispatches no tick event.                           *)
(***************************************************************************)
AlphaRest == 0
AlphaDrag == 3

NoNode == [node |-> "none"]
NoGroup == [group |-> "none"]
Group(g) == [group |-> g]
NoPin == [pin |-> "none"]

\* Positions: the middle of the container, the anchor of a group with its
\* random offset, the point the forces moved a node to, the pointer.
Center == [at |-> "center", of |-> ""]
Anchor(group) == [at |-> "anchor", of |-> group]
Relaxed == [at |-> "relaxed", of |-> ""]
Pointer(p) == [at |-> "pointer", of |-> p]

\* new Map()
emptyCache == [id \in {} |-> Center]

\* previousNodesRef.current.clear()
clearCache(cache) == emptyCache

getInitialPosition(node, center, cache) ==
  IF node.id = center THEN Center
  ELSE IF node.id \in DOMAIN cache THEN cache[node.id]
  ELSE Anchor(node.group)

\* simulation.tick(): a pinned node sits on its pin, the others move
ticked(copy) ==
  [i \in 1..Len(copy) |->
     [copy[i] EXCEPT !.x = IF copy[i].fx # NoPin THEN copy[i].fx ELSE Relaxed]]

\* nodes.map(d => ({ ...d, x: pos.x, y: pos.y })), then the 300 ticks
seeded(ns, center, cache) ==
  ticked([i \in 1..Len(ns) |->
            [id |-> ns[i].id, group |-> ns[i].group,
             seed |-> getInitialPosition(ns[i], center, cache),
             x |-> getInitialPosition(ns[i], center, cache),
             fx |-> NoPin]])

\* nodesCopy.forEach(node => previousNodesRef.current.set(node.id, ...))
stored(copy) ==
  [id \in {copy[i].id : i \in 1..Len(copy)} |->
     LET at == CHOOSE i \in 1..Len(copy) :
                 /\ copy[i].id = id
                 /\ \A j \in 1..Len(copy) : copy[j].id = id => j <= i
     IN  copy[at].x]

layoutEffect(touched) ==
  IF ~touched THEN UNCHANGED graphVars
  ELSE IF ~isLoaded' \/ Len(nodes') = 0
       THEN /\ running' = FALSE
            /\ UNCHANGED <<previousNodes, nodesCopy, linksCopy, alphaTarget, alpha, dragged>>
       ELSE /\ previousNodes' = clearCache(previousNodes)
            /\ nodesCopy' = seeded(nodes', centeredNodeId', clearCache(previousNodes))
            /\ linksCopy' = links'
            /\ alphaTarget' = AlphaRest
            /\ alpha' = AlphaRest
            /\ running' = FALSE
            /\ dragged' = 0

(***************************************************************************)
(* NetworkGraph: the stroke and the opacity of the paths of the links.     *)
(* The layout effect draws every path plain; the effect on [selectedNode]  *)
(* restyles the paths that are drawn when it runs.  Opacities are in       *)
(* twentieths.                                                             *)
(***************************************************************************)
PlainStroke == "#94a3b8"
OpacityBase == 10
OpacityEmphasized == 18
OpacityDimmed == 4

\* data/initialData.js: defaultGroupColors
defaultGroupColors ==
  [k \in {"me", "family", "work", "friends", "acquaintances"} |->
     CASE k = "me" -> "#e07a3a"
       [] k = "family" -> "#c9577a"
       [] k = "work" -> "#3a9ba5"
       [] k = "friends" -> "#7c6bb8"
       [] k = "acquaintances" -> "#7a8694"]

\* { ...defaultGroupColors, ...defaultColorOverrides, ...custom colours }[group]
groupColors(group, custom, overrides) ==
  IF group \in DOMAIN custom THEN custom[group].color
  ELSE IF group \in DOMAIN overrides THEN overrides[group]
  ELSE IF group \in DOMAIN defaultGroupColors THEN defaultGroupColors[group]
  ELSE "undefined"

\* .attr('stroke', '#94a3b8').attr('stroke-opacity', d => 0.5 + d.strength / 20)
plainStyle(l) == [stroke |-> PlainStroke, opacity |-> OpacityBase + l.strength]

\* the layout effect: .data(linksCopy).join('path')
drawLinks(ls) == [i \in 1..Len(ls) |-> plainStyle(ls[i])]

\* the effect on [selectedNode]: stroke and stroke-opacity of one path
highlightStyle(l, sel, custom, overrides) ==
  IF sel = NoNode THEN plainStyle(l)
  ELSE IF SourceId(l) = sel.id \/ TargetId(l) = sel.id
       THEN [stroke |-> groupColors(sel.group, custom, overrides),
             opacity |-> OpacityEmphasized]
       ELSE [stroke |-> PlainStroke, opacity |-> OpacityDimmed]

highlightLinks(ls, sel, custom, overrides) ==
  [i \in 1..Len(ls) |-> highlightStyle(ls[i], sel, custom, overrides)]

\* The paths after a render: the layout effect, when it ran, has drawn them
\* plain, and the effect on [selectedNode] runs after it when the selection
\* changed.
highlightEffect(touched) ==
  linkStyles' =
    IF selectedNode' # selectedNode
    THEN highlightLinks(linksCopy', selectedNode', customGroups', defaultColorOverrides')
    ELSE IF touched /\ isLoaded' /\ Len(nodes') > 0
         THEN drawLinks(linksCopy')
         ELSE linkStyles

\* A click hands the effect the node of the simulation, a new object after
\* every layout: the effect runs.
selectEffect ==
  linkStyles' =
    highlightLinks(linksCopy', selectedNode', customGroups', defaultColorOverrides')

(***************************************************************************)
(* NetworkGraph: bridgeData, the memo over nodes and links that maps the   *)
(* id of each bridge to the groups it reaches.                             *)
(***************************************************************************)
NoBridges == [bridges |-> "none"]

\* nodes.findNode(n => n.id === id)
findNode(ns, id) ==
  LET found == {i \in 1..Len(ns) : ns[i].id = id}
  IN  IF found = {} THEN NoNode
      ELSE ns[CHOOSE i \in found : \A j \in found : i <= j]

\* A memo that looks at the links leaving the node only.
otherEndsOfSource(l, id) ==
  IF SourceId(l) = id THEN {TargetId(l)} ELSE {}

\* if (sourceId === node.id) targetId else if (targetId === node.id) sourceId
otherEnds(l, id) ==
  IF SourceId(l) = id THEN {TargetId(l)}
  ELSE IF TargetId(l) = id THEN {SourceId(l)}
  ELSE {}

\* connectedGroups of a node: the groups, other than 'me' and its own, of
\* the persons found at the other end of its links
connectedGroups(node, ns, ls) ==
  LET ends == UNION {otherEnds(ls[k], node.id) : k \in 1..Len(ls)}
      foreign == {o \in ends : /\ findNode(ns, o) # NoNode
                               /\ findNode(ns, o).group # "me"
                               /\ findNode(ns, o).group # node.group}
  IN  {findNode(ns, o).group : o \in foreign}

bridgeData(ns, ls) ==
  LET isBridge(i) == /\ ns[i].group # "me"
                     /\ connectedGroups(ns[i], ns, ls) # {}
      set == {i \in 1..Len(ns) : isBridge(i)}
  IN  [id \in {ns[i].id : i \in set} |->
         LET at == CHOOSE i \in set :
                     /\ ns[i].id = id
                     /\ \A j \in set : ns[j].id = id => j <= i
         IN  connectedGroups(ns[at], ns, ls)]

(***************************************************************************)
(* NetworkHealthDashboard: stats, the memo over nodes and links.           *)
(***************************************************************************)
NoStats == [stats |-> "none"]

\* The number 0 of a guard that fails, and the string toFixed(1) returns.
Number(n) == [number |-> n]
Fixed(text) == [fixed |-> text]

\* A conversion that cuts the digits after the first decimal off.
toFixed1Cut(num, den) ==
  LET tenths == (10 * num) \div den
  IN  Fixed(ToString(tenths \div 10) \o "." \o ToString(tenths % 10))

\* (num / den).toFixed(1) for num >= 0, den > 0: the nearest tenth, the
\* larger one of two equally near
toFixed1(num, den) ==
  LET tenths == (20 * num + den) \div (2 * den)
  IN  Fixed(ToString(tenths \div 10) \o "." \o ToString(tenths % 10))

RECURSIVE sumStrength(_)
\* links.reduce((sum, l) => sum + (l.strength || 0), 0)
sumStrength(ls) ==
  IF ls = << >> THEN 0 ELSE Head(ls).strength + sumStrength(Tail(ls))

count(ls, Keep(_)) == Len(SelectSeq(ls, Keep))

\* A threshold that leaves strength 3 out.
isNeglectedBelow3(l) == l.strength < 3

\* l.strength <= 3
isNeglected(l) == l.strength <= 3

\* A threshold that takes strength 4 for weak as well.
isWeakUpTo4(l) == l.strength >= 2 /\ l.strength <= 4

\* l.strength >= 2 && l.strength < 4
isWeak(l) == l.strength >= 2 /\ l.strength < 4

strengthBuckets(ls) ==
  LET veryStrong(l) == l.strength >= 8
      strong(l) == l.strength >= 6 /\ l.strength < 8
      moderate(l) == l.strength >= 4 /\ l.strength < 6
      veryWeak(l) == l.strength < 2
  IN  [veryStrong |-> count(ls, veryStrong),
       strong |-> count(ls, strong),
       moderate |-> count(ls, moderate),
       weak |-> count(ls, isWeak),
       veryWeak |-> count(ls, veryWeak)]

\* links.filter(...).map(resolve).filter(c => c.source && c.target)
neglectedConnections(ns, ls) ==
  LET resolved(l) == /\ findNode(ns, SourceId(l)) # NoNode
                     /\ findNode(ns, TargetId(l)) # NoNode
      keep(l) == isNeglected(l) /\ resolved(l)
      weak == SelectSeq(ls, keep)
  IN  [k \in 1..Len(weak) |->
         [source |-> findNode(ns, SourceId(weak[k])),
          target |-> findNode(ns, TargetId(weak[k])),
          strength |-> weak[k].strength]]

\* (m / (n * (n - 1) / 2) * 100).toFixed(1), or the number 0
densityOf(n, m) ==
  LET maxPossibleConnections == (n * (n - 1)) \div 2
  IN  IF maxPossibleConnections > 0
      THEN toFixed1(100 * m, maxPossibleConnections)
      ELSE Number(0)

\* A density over the persons other than the self node.
densityOfPeople(ns, ls) == densityOf(Len(ns) - 1, Len(ls))

\* density: nodes.length and links.length are what it counts
density(ns, ls) == densityOf(Len(ns), Len(ls))

\* The sum of connectionCounts over the ids other than 'me', by totalPeople
avgConnectionsPerPerson(ns, ls) ==
  LET notMe(n) == n.id # SelfId
      totalPeople == count(ns, notMe)
      ends == Cardinality({k \in 1..Len(ls) : SourceId(ls[k]) # SelfId})
              + Cardinality({k \in 1..Len(ls) : TargetId(ls[k]) # SelfId})
  IN  IF totalPeople > 0 THEN toFixed1(ends, totalPeople) ELSE Number(0)

healthStats(ns, ls) ==
  LET notMe(n) == n.id # SelfId
      peopleNodes == SelectSeq(ns, notMe)
      connected == UNION {PairOf(ls[k]) : k \in 1..Len(ls)}
      isolated(n) == n.id \notin connected
      n == Len(ns)
  IN  [totalPeople |-> Len(peopleNodes),
       totalConnections |-> Len(ls),
       avgStrength |-> IF Len(ls) > 0 THEN toFixed1(sumStrength(ls), Len(ls))
                       ELSE Number(0),
       neglectedConnections |-> neglectedConnections(ns, ls),
       groupCounts |-> [g \in {peopleNodes[i].group : i \in 1..Len(peopleNodes)} |->
                          Cardinality({i \in 1..Len(peopleNodes) :
                                         peopleNodes[i].group = g})],
       density |-> density(ns, ls),
       avgConnectionsPerPerson |-> avgConnectionsPerPerson(ns, ls),
       isolatedPeople |-> SelectSeq(peopleNodes, isolated),
       strengthBuckets |-> strengthBuckets(ls),
       maxPossibleConnections |-> (n * (n - 1)) \div 2]

\* The memos of the rendered components follow nodes and links.
memoEffect ==
  /\ bridges' = IF bridges = NoBridges THEN NoBridges
                ELSE bridgeData(nodes', links')
  /\ stats' = IF stats = NoStats THEN NoStats
              ELSE healthStats(nodes', links')

\* The shell renders the graph once the hook has loaded.
memoMount ==
  /\ bridges' = bridgeData(nodes', links')
  /\ UNCHANGED stats

\* The shell and the graph after the load, nothing selected.
viewSettled ==
  /\ centeredNodeId = SelfId
  /\ selectedNode = NoNode
  /\ selectedGroup = NoGroup
  /\ previousNodes = emptyCache
  /\ nodesCopy = seeded(nodes, SelfId, emptyCache)
  /\ linksCopy = links
  /\ linkStyles = drawLinks(links)
  /\ alphaTarget = AlphaRest
  /\ alpha = AlphaRest
  /\ running = FALSE
  /\ dragged = 0
  /\ bridges = bridgeData(nodes, links)
  /\ stats = NoStats

\* The shell on its loading screen: no graph is mounted.
viewUnmounted ==
  /\ centeredNodeId = SelfId
  /\ selectedNode = NoNode
  /\ selectedGroup = NoGroup
  /\ previousNodes = emptyCache
  /\ nodesCopy = << >>
  /\ linksCopy = << >>
  /\ linkStyles = << >>
  /\ alphaTarget = AlphaRest
  /\ alpha = AlphaRest
  /\ running = FALSE
  /\ dragged = 0
  /\ bridges = NoBridges
  /\ stats = NoStats

Clock == now..MaxClock

\* AddPersonForm.handleSubmit -> handleAddPerson, for a new person:
\* addPerson, then addLink('me', newId) when connectToMe.
handleAddPerson(groups) ==
  \E name \in PersonNames, group \in groups, connectToMe \in BOOLEAN,
     strength \in FormStrengths, t \in Clock :
    LET person == [id |-> NoId, name |-> name, group |-> group]
        newId == newPersonId(person, t)
        link == [source |-> SelfId, target |-> newId,
                 strength |-> strengthOrDefault(
                                IF connectToMe THEN strength ELSE NoStrength)]
        linked == connectToMe /\ ~linkExists(links, link)
    IN  /\ event
        /\ nodes' = addPersonNodes(nodes, person, t)
        /\ links' = IF linked THEN addLinkLinks(links, link) ELSE links
        /\ last' = Ran("addPerson", newId, "", linked, <<newId>>)
        /\ now' = t
        /\ categoriesUnchanged
        /\ saveEffect(TRUE)
        /\ UNCHANGED appViewVars
        /\ layoutEffect(TRUE)
        /\ highlightEffect(TRUE)
        /\ memoEffect

\* AddPersonForm.handleSubmit -> handleAddPerson, for an edited person:
\* updatePerson(person.id, person)
handleEditPerson(groups) ==
  \E i \in 1..Len(nodes), name \in EditNames, group \in groups :
    LET person == [id |-> nodes[i].id, name |-> name,
                   group |-> IF nodes[i].id = SelfId THEN nodes[i].group ELSE group]
    IN  /\ event
        /\ nodes' = updatePersonNodes(nodes, person.id, person)
        /\ last' = Ran("updatePerson", person.id, "", TRUE, << >>)
        /\ UNCHANGED <<links, now>>
        /\ categoriesUnchanged
        /\ saveEffect(TRUE)
        /\ UNCHANGED appViewVars
        /\ layoutEffect(TRUE)
        /\ highlightEffect(TRUE)
        /\ memoEffect

\* AddLinkForm.handleSubmit -> handleAddLink -> addLink
addLinkFormAccepts(source, target) == FALSE
addLinkFormRejects(source, target) == source = target

handleAddLinkWith(strengths) ==
  \E source \in NodeIds(nodes), target \in NodeIds(nodes),
     strength \in strengths :
    LET link == [source |-> source, target |-> target, strength |-> strength]
        added == ~addLinkFormRejects(source, target) /\ ~linkExists(links, link)
    IN  /\ event
        /\ links' = IF added THEN addLinkLinks(links, link) ELSE links
        /\ last' = Ran("addLink", source, target, added, << >>)
        /\ UNCHANGED <<nodes, now>>
        /\ categoriesUnchanged
        /\ saveEffect(added)
        /\ UNCHANGED appViewVars
        /\ layoutEffect(added)
        /\ highlightEffect(added)
        /\ memoEffect

handleAddLink == handleAddLinkWith(FormStrengths)

\* EditLinkForm -> handleUpdateLink -> updateLink
handleUpdateLink ==
  \E i \in 1..Len(links), strength \in EditStrengths :
    LET source == SourceId(links[i])
        target == TargetId(links[i])
    IN  /\ event
        /\ links' = updateLinkLinks(links, source, target, strength)
        /\ last' = Ran("updateLink", source, target, TRUE, << >>)
        /\ UNCHANGED <<nodes, now>>
        /\ categoriesUnchanged
        /\ saveEffect(TRUE)
        /\ UNCHANGED appViewVars
        /\ layoutEffect(TRUE)
        /\ highlightEffect(TRUE)
        /\ memoEffect

\* EditLinkForm -> handleDeleteLink -> deleteLink
handleDeleteLink ==
  \E i \in 1..Len(links) :
    LET source == SourceId(links[i])
        target == TargetId(links[i])
    IN  /\ event
        /\ links' = deleteLinkLinks(links, source, target)
        /\ last' = Ran("deleteLink", source, target, TRUE, << >>)
        /\ UNCHANGED <<nodes, now>>
        /\ categoriesUnchanged
        /\ saveEffect(TRUE)
        /\ UNCHANGED appViewVars
        /\ layoutEffect(TRUE)
        /\ highlightEffect(TRUE)
        /\ memoEffect

\* NodeDetail / GroupPanel -> handleDeletePerson -> deletePerson
handleDeletePerson ==
  \E id \in NodeIds(nodes) :
    /\ event
    /\ IF deletePersonRefused(id)
       THEN UNCHANGED <<nodes, links>>
       ELSE /\ nodes' = deletePersonNodes(nodes, id)
            /\ links' = deletePersonLinks(links, id)
    /\ last' = Ran("deletePerson", id, "", ~deletePersonRefused(id), << >>)
    /\ UNCHANGED now
    /\ categoriesUnchanged
    /\ saveEffect(~deletePersonRefused(id))
    /\ selectedNode' = NoNode
    /\ UNCHANGED <<centeredNodeId, selectedGroup>>
    /\ layoutEffect(~deletePersonRefused(id))
    /\ highlightEffect(~deletePersonRefused(id))
    /\ memoEffect

\* BulkAddForm.handleSubmit -> handleBulkAdd -> bulkAddPeople
handleBulkAddOf(counts, groups) ==
  \E n \in counts, group \in groups, connectToMe \in BOOLEAN,
     strength \in FormStrengths, t \in Clock :
    \E suffixes \in [1..n -> RandomSuffixes] :
      LET names == [i \in 1..n |-> BulkNames[i]]
          newNodes == bulkNewNodes(names, suffixes, group, t)
          newLinks == bulkNewLinks(newNodes, connectToMe,
                                   IF connectToMe THEN strength ELSE NoStrength)
      IN  /\ event
          /\ nodes' = nodes \o newNodes
          /\ links' = IF Len(newLinks) > 0 THEN links \o newLinks ELSE links
          /\ last' = Ran("bulkAddPeople", "", "", TRUE,
                         [i \in 1..n |-> newNodes[i].id])
          /\ now' = t
          /\ categoriesUnchanged
          /\ saveEffect(TRUE)
          /\ UNCHANGED appViewVars
          /\ layoutEffect(TRUE)
          /\ highlightEffect(TRUE)
          /\ memoEffect

handleBulkAdd(groups) == handleBulkAddOf(1..MaxBulk, groups)

(***************************************************************************)
(* Spec: the person and link handlers, from a loaded snapshot.             *)
(***************************************************************************)
GraphGroups == {"friends"}

Init ==
  /\ \E snap \in Snapshots : nodes = snap.nodes /\ links = snap.links
  /\ customGroups = << >>
  /\ defaultColorOverrides = << >>
  /\ deletedDefaultCategories = << >>
  /\ now = 0
  /\ events = 0
  /\ last = Ran("load", "", "", TRUE, << >>)
  /\ serverIdle
  /\ loadDone
  /\ saveSettled
  /\ viewSettled

Next ==
  \/ handleAddPerson(GraphGroups)
  \/ handleEditPerson(GraphGroups)
  \/ handleBulkAdd(GraphGroups)
  \/ handleAddLink
  \/ handleUpdateLink
  \/ handleDeleteLink
  \/ handleDeletePerson

Spec == Init /\ [][Next]_vars

(***************************************************************************)
(* Categories: the default set, the custom set, the hidden defaults.       *)
(***************************************************************************)
\* data/initialData.js:81-87, the keys of defaultGroupLabels
DefaultKeys == {"me", "family", "work", "friends", "acquaintances"}

\* The category a deleted one hands its members to.
FallbackKey == "friends"

\* Object spread {...prev, [key]: value}
WithKey(obj, key, value) ==
  [k \in DOMAIN obj \cup {key} |-> IF k = key THEN value ELSE obj[k]]

\* Object rest: const { [key]: removed, ...rest } = prev
WithoutKey(obj, key) == [k \in DOMAIN obj \ {key} |-> obj[k]]

\* Legend: the categories shown, the defaults that are not hidden and the
\* custom ones.
CategoryVisible(k) ==
  \/ k \in DefaultKeys /\ k \notin Range(deletedDefaultCategories)
  \/ k \in DOMAIN customGroups

\* AddPersonForm / BulkAddForm: availableGroups, the defaults but 'me' and
\* the custom ones.
availableGroups == (DefaultKeys \ {"me"}) \cup DOMAIN customGroups

(***************************************************************************)
(* CategoryManager.handleAddCategory: the key derived from the name typed, *)
(* name.toLowerCase().replace(/\s+/g, '-').replace(/[^a-z0-9-]/g, '').     *)
(* A name is a sequence of one-character strings.                          *)
(***************************************************************************)
UpperChars == << "A", "B", "C", "D", "E", "F", "G", "H", "I", "J", "K", "L", "M",
                 "N", "O", "P", "Q", "R", "S", "T", "U", "V", "W", "X", "Y", "Z" >>
LowerChars == << "a", "b", "c", "d", "e", "f", "g", "h", "i", "j", "k", "l", "m",
                 "n", "o", "p", "q", "r", "s", "t", "u", "v", "w", "x", "y", "z" >>
DigitChars == {"0", "1", "2", "3", "4", "5", "6", "7", "8", "9"}
SpaceChars == {" ", "\t", "\n"}

toLowerCase(name) ==
  [i \in 1..Len(name) |->
     IF \E j \in 1..Len(UpperChars) : UpperChars[j] = name[i]
     THEN LowerChars[CHOOSE j \in 1..Len(UpperChars) : UpperChars[j] = name[i]]
     ELSE name[i]]

RECURSIVE dropSpaces(_)
dropSpaces(s) ==
  IF s # << >> /\ Head(s) \in SpaceChars THEN dropSpaces(Tail(s)) ELSE s

\* replace(/\s+/g, '-')
RECURSIVE spacesToDash(_)
spacesToDash(s) ==
  IF s = << >> THEN << >>
  ELSE IF Head(s) \in SpaceChars
       THEN << "-" >> \o spacesToDash(dropSpaces(Tail(s)))
       ELSE << Head(s) >> \o spacesToDash(Tail(s))

\* replace(/[^a-z0-9-]/g, '')
keepKeyChars(s) ==
  LET keep(c) == c \in Range(LowerChars) \cup DigitChars \cup {"-"}
  IN  SelectSeq(s, keep)

RECURSIVE join(_)
join(s) == IF s = << >> THEN "" ELSE Head(s) \o join(Tail(s))

RECURSIVE reverse(_)
reverse(s) == IF s = << >> THEN << >> ELSE Append(reverse(Tail(s)), Head(s))

\* String.prototype.trim
trim(name) == reverse(dropSpaces(reverse(dropSpaces(name))))

categoryKey(name) == join(keepKeyChars(spacesToDash(toLowerCase(name))))

\* The duplicate test without its look at the default labels.
categoryKeyTakenCustomOnly(key) == key \in DOMAIN customGroups

\* handleAddCategory: defaultGroupLabels[key] || customGroups[key]
categoryKeyTaken(key) == key \in DefaultKeys \/ key \in DOMAIN customGroups

\* The names typed into the add-category form.
CategoryNames ==
  { << "W", "o", "r", "k" >>,          \* the key of a default category
    << "G", "y", "m" >>,
    << "G", "Y", "M", "?" >>,          \* the key of "Gym" again
    << "a", " ", "b" >>,
    << " ", "A", " ", " ", "B" >>,
    << " ", " " >> }                   \* nothing but spaces

\* availableColors[5], the colour the form starts with
CategoryColors == {"#5a9a6b"}
EditColors == {"#d4a656"}
EditLabels == {"Sport"}

(***************************************************************************)
(* useNetworkData: the state updates of the category helpers.              *)
(***************************************************************************)
\* A deletion that leaves the members where they were.
moveToFallbackNobody(prev, key) == prev

\* deleteCategory / deleteDefaultCategory:
\* prev.map(node => node.group === key ? {...node, group: 'friends'} : node)
moveToFallback(prev, key) ==
  LET move(node) == IF node.group = key
                    THEN [node EXCEPT !.group = FallbackKey]
                    ELSE node
  IN  MapSeq(prev, move)

\* deleteDefaultCategory: prev.includes(key) ? prev : [...prev, key]
hideDefault(prev, key) == IF key \in Range(prev) THEN prev ELSE Append(prev, key)

\* restoreDefaultCategory: prev.filter(k => k !== key)
restoreDefault(prev, key) == LET keep(k) == k # key IN FilterSeq(prev, keep)

(***************************************************************************)
(* Handlers of the category manager.                                       *)
(***************************************************************************)
nodesLinksUnchanged == UNCHANGED <<nodes, links, now>>

\* CategoryManager.handleAddCategory -> addCategory
handleAddCategory ==
  \E name \in CategoryNames, color \in CategoryColors :
    LET key == categoryKey(name)
        label == join(trim(name))
        added == trim(name) # << >> /\ ~categoryKeyTaken(key)
    IN  /\ event
        /\ customGroups' =
             IF added
             THEN WithKey(customGroups, key, [label |-> label, color |-> color])
             ELSE customGroups
        /\ last' = Ran("addCategory", key, label, added, << >>)
        /\ UNCHANGED <<defaultColorOverrides, deletedDefaultCategories>>
        /\ nodesLinksUnchanged
        /\ saveEffect(added)
        /\ UNCHANGED appViewVars
        /\ layoutEffect(added)
        /\ highlightEffect(added)
        /\ memoEffect

\* CategoryManager.handleSaveEdit(false) -> updateCategory
handleUpdateCategory ==
  \E key \in DOMAIN customGroups, label \in EditLabels, color \in EditColors :
    /\ event
    /\ customGroups' =
         WithKey(customGroups, key,
                 [customGroups[key] EXCEPT !.label = label, !.color = color])
    /\ last' = Ran("updateCategory", key, label, TRUE, << >>)
    /\ UNCHANGED <<defaultColorOverrides, deletedDefaultCategories>>
    /\ nodesLinksUnchanged
    /\ saveEffect(TRUE)
    /\ UNCHANGED appViewVars
    /\ layoutEffect(TRUE)
    /\ highlightEffect(TRUE)
    /\ memoEffect

\* CategoryManager.handleSaveEdit(true) -> updateDefaultColor
handleUpdateDefaultColor ==
  \E key \in DefaultKeys \ {"me"}, color \in EditColors :
    /\ event
    /\ defaultColorOverrides' = WithKey(defaultColorOverrides, key, color)
    /\ last' = Ran("updateDefaultColor", key, color, TRUE, << >>)
    /\ UNCHANGED <<customGroups, deletedDefaultCategories>>
    /\ nodesLinksUnchanged
    /\ saveEffect(TRUE)
    /\ UNCHANGED appViewVars
    /\ layoutEffect(FALSE)
    /\ highlightEffect(FALSE)
    /\ memoEffect

\* CategoryManager.handleDelete -> deleteCategory, offered for custom categories
handleDeleteCategory ==
  \E key \in DOMAIN customGroups :
    /\ event
    /\ nodes' = moveToFallback(nodes, key)
    /\ customGroups' = WithoutKey(customGroups, key)
    /\ last' = Ran("deleteCategory", key, "", TRUE, << >>)
    /\ UNCHANGED <<links, now, defaultColorOverrides, deletedDefaultCategories>>
    /\ saveEffect(TRUE)
    /\ UNCHANGED appViewVars
    /\ layoutEffect(TRUE)
    /\ highlightEffect(TRUE)
    /\ memoEffect

\* deleteDefaultCategory, for the default categories the manager lists
deleteDefaultCategory ==
  \E key \in DefaultKeys \ {"me"} :
    /\ event
    /\ nodes' = moveToFallback(nodes, key)
    /\ deletedDefaultCategories' = hideDefault(deletedDefaultCategories, key)
    /\ defaultColorOverrides' = WithoutKey(defaultColorOverrides, key)
    /\ last' = Ran("deleteDefaultCategory", key, "", TRUE, << >>)
    /\ UNCHANGED <<links, now, customGroups>>
    /\ saveEffect(TRUE)
    /\ UNCHANGED appViewVars
    /\ layoutEffect(TRUE)
    /\ highlightEffect(TRUE)
    /\ memoEffect

\* restoreDefaultCategory
restoreDefaultCategory ==
  \E key \in DefaultKeys \ {"me"} :
    /\ event
    /\ deletedDefaultCategories' = restoreDefault(deletedDefaultCategories, key)
    /\ last' = Ran("restoreDefaultCategory", key, "", TRUE, << >>)
    /\ UNCHANGED <<customGroups, defaultColorOverrides>>
    /\ nodesLinksUnchanged
    /\ saveEffect(TRUE)
    /\ UNCHANGED appViewVars
    /\ layoutEffect(FALSE)
    /\ highlightEffect(FALSE)
    /\ memoEffect

(***************************************************************************)
(* SpecCat: the person and category handlers, from a loaded snapshot.      *)
(***************************************************************************)
categoryNodes ==
  << Person(SelfId, "Me", "me"), Person("mom", "Mom", "family"),
     Person("bestfriend", "Chris", "friends") >>
categoryLinks == << Link(Bare(SelfId), Bare("mom"), 9) >>

\* A persisted snapshot with a custom category that has a member.
customSnapshotNodes == Append(categoryNodes, Person("gym", "Fitness Tom", "gym"))
customSnapshotGroups == WithKey(<< >>, "gym", [label |-> "Gym", color |-> "#5a9a6b"])

InitCat ==
  /\ \/ nodes = categoryNodes /\ customGroups = << >>
     \/ nodes = customSnapshotNodes /\ customGroups = customSnapshotGroups
  /\ links = categoryLinks
  /\ defaultColorOverrides = << >>
  /\ deletedDefaultCategories = << >>
  /\ now = 0
  /\ events = 0
  /\ last = Ran("load", "", "", TRUE, << >>)
  /\ serverIdle
  /\ loadDone
  /\ saveSettled
  /\ viewSettled

NextCat ==
  \/ handleAddPerson(availableGroups)
  \/ handleEditPerson(availableGroups)
  \/ handleAddCategory
  \/ handleUpdateCategory
  \/ handleUpdateDefaultColor
  \/ handleDeleteCategory
  \/ deleteDefaultCategory
  \/ restoreDefaultCategory

SpecCat == InitCat /\ [][NextCat]_vars

(***************************************************************************)
(* The API server (api/index.js): the users and network_data tables, kept  *)
(* in a database when one is configured and in memoryStore otherwise.      *)
(* A handler runs up to its next awaited database call or password hash;   *)
(* with memoryStore the data functions have no await of their own, so a    *)
(* handler runs through them in one piece.                                 *)
(***************************************************************************)
NoRow == [row |-> "none"]        \* find() of nothing / .single() without one row
NoData == [data |-> "none"]       \* nothing saved or sent
NoEmail == [email |-> "none"]

\* The account ids for which a signed token is in circulation.
TokenUsers == {1, 2}

Email(local, domain) == [local |-> local, domain |-> domain]
Emails == {Email("cy", "x.io")}
RegisterNames == {"", "Cy"}       \* name is optional in the register body

\* defaultNodes with the name of the self node set, defaultLinks, no categories
defaultData(name) == Data(<< Person(SelfId, name, "me") >>, << >>, << >>, << >>, << >>)

\* name || other
orElse(name, other) == IF name = "" THEN other ELSE name

\* The bodies of PUT /api/network: snapshots of the client.
PutBodies ==
  { Data(storedNodes, storedLinks, << >>, << >>, << >>),
    Data(customSnapshotNodes, categoryLinks, customSnapshotGroups, << >>, << "work" >>) }

Row(id, userId, d) ==
  [id |-> id, user_id |-> userId, nodes |-> d.nodes, links |-> d.links,
   custom_groups |-> d.customGroups,
   default_color_overrides |-> d.defaultColorOverrides,
   deleted_default_categories |-> d.deletedDefaultCategories]

\* existing.nodes = nodes; ... / .update({nodes, links, custom_groups, ...})
setRow(row, d) ==
  [row EXCEPT !.nodes = d.nodes, !.links = d.links,
              !.custom_groups = d.customGroups,
              !.default_color_overrides = d.defaultColorOverrides,
              !.deleted_default_categories = d.deletedDefaultCategories]

\* GET /api/network: the body built from a record
rowBody(row) ==
  Data(row.nodes, row.links, row.custom_groups, row.default_color_overrides,
       row.deleted_default_categories)

User(id, email, name) == [id |-> id, email |-> email, name |-> name]

rowsOf(tbl, userId) == LET mine(row) == row.user_id = userId IN FilterSeq(tbl, mine)

\* memoryStore.networkData.find(n => n.user_id === userId)
find(tbl, userId) ==
  LET rs == rowsOf(tbl, userId) IN IF rs = << >> THEN NoRow ELSE rs[1]

\* .eq('user_id', userId).single(): the row when there is exactly one
single(tbl, userId) ==
  LET rs == rowsOf(tbl, userId) IN IF Len(rs) = 1 THEN rs[1] ELSE NoRow

\* getNetworkData
getNetworkData(userId) ==
  IF db THEN single(networkData, userId) ELSE find(networkData, userId)

\* memoryStore: the record found is written in place
updateFound(tbl, userId, d) ==
  LET i == CHOOSE i \in 1..Len(tbl) :
             /\ tbl[i].user_id = userId
             /\ \A j \in 1..(i - 1) : tbl[j].user_id # userId
  IN  [tbl EXCEPT ![i] = setRow(tbl[i], d)]

\* database: .update(...).eq('user_id', userId)
updateWhere(tbl, userId, d) ==
  [i \in 1..Len(tbl) |->
     IF tbl[i].user_id = userId THEN setRow(tbl[i], d) ELSE tbl[i]]

\* users.find(u => u.email === email) / .eq('email', email).single()
findUserByEmail(email) == \E i \in 1..Len(users) : users[i].email = email

\* findUserById(id)?.name || 'Me'
userNameOrMe(id) ==
  IF \E i \in 1..Len(users) : users[i].id = id
  THEN orElse(users[CHOOSE i \in 1..Len(users) : users[i].id = id].name, "Me")
  ELSE "Me"

lastSaveOf(userId) == IF userId \in DOMAIN lastSave THEN lastSave[userId] ELSE NoData

Request(kind, userId, pc, d, asOf) ==
  [kind |-> kind, user |-> userId, pc |-> pc, data |-> d, existing |-> FALSE,
   asOf |-> asOf, email |-> NoEmail, name |-> ""]

Reply(kind, userId, status, body, asOf) ==
  [kind |-> kind, user |-> userId, status |-> status, body |-> body, asOf |-> asOf]

\* The response of a handler once its save is through.
replyAfterSave(req) ==
  Reply(req.kind, req.user, IF req.kind = "register" THEN 201 ELSE 200,
        IF req.kind \in {"get", "reset"} THEN req.data ELSE NoData, req.asOf)

receive == Len(requests) < MaxRequests /\ UNCHANGED <<clientVars, loadVars, saveVars, viewVars, memoVars>>

\* saveNetworkData on memoryStore, in one piece
saveInMemory(req) ==
  /\ IF find(networkData, req.user) # NoRow
     THEN /\ networkData' = updateFound(networkData, req.user, req.data)
          /\ UNCHANGED nextNetworkId
     ELSE /\ networkData' = Append(networkData, Row(nextNetworkId, req.user, req.data))
          /\ nextNetworkId' = nextNetworkId + 1
  /\ lastSave' = WithKey(lastSave, req.user, req.data)
  /\ reply' = replyAfterSave(req)

\* A handler comes to its saveNetworkData call: with a database the call
\* first asks for the existing record and goes on at "write"; with
\* memoryStore the save is made at once.
startSave(req) ==
  IF db
  THEN /\ requests' = Append(requests,
                        [req EXCEPT !.pc = "write",
                                    !.existing = single(networkData, req.user) # NoRow])
       /\ UNCHANGED <<networkData, nextNetworkId, lastSave, reply>>
  ELSE /\ requests' = Append(requests, [req EXCEPT !.pc = "done"])
       /\ saveInMemory(req)

\* A handler with a database goes on to saveNetworkData after another
\* awaited call: the request waits at "select".
thenSave(req) ==
  IF db
  THEN /\ requests' = Append(requests, [req EXCEPT !.pc = "select"])
       /\ UNCHANGED <<networkData, nextNetworkId, lastSave, reply>>
  ELSE startSave(req)

\* PUT /api/network
putNetwork ==
  \E userId \in TokenUsers, body \in PutBodies :
    /\ receive
    /\ startSave(Request("put", userId, "start", body, NoData))
    /\ actor' = userId
    /\ UNCHANGED <<db, users, nextUserId, authVars>>

\* GET /api/network
getNetwork ==
  \E userId \in TokenUsers :
    LET data == getNetworkData(userId)
        asOf == lastSaveOf(userId)
    IN  /\ receive
        /\ IF data # NoRow
           THEN /\ requests' = Append(requests, Request("get", userId, "done", NoData, asOf))
                /\ reply' = Reply("get", userId, 200, rowBody(data), asOf)
                /\ UNCHANGED <<networkData, nextNetworkId, lastSave>>
           ELSE thenSave(Request("get", userId, "start", defaultData("Me"), asOf))
        /\ actor' = userId
        /\ UNCHANGED <<db, users, nextUserId, authVars>>

\* POST /api/network/reset
resetNetwork ==
  \E userId \in TokenUsers :
    /\ receive
    /\ thenSave(Request("reset", userId, "start", defaultData(userNameOrMe(userId)), NoData))
    /\ actor' = userId
    /\ UNCHANGED <<db, users, nextUserId, authVars>>

\* POST /api/auth/register, up to the awaited password hash
register ==
  \E email \in Emails, name \in RegisterNames :
    LET req == [Request("register", 0, "start", defaultData(orElse(name, "Me")), NoData)
                  EXCEPT !.email = email, !.name = orElse(name, email.local)]
    IN  /\ receive
        /\ IF findUserByEmail(email)
           THEN /\ requests' = Append(requests, [req EXCEPT !.pc = "done"])
                /\ reply' = Reply("register", 0, 400, NoData, NoData)
           ELSE /\ requests' = Append(requests, [req EXCEPT !.pc = "create"])
                /\ UNCHANGED reply
        /\ actor' = 0
        /\ UNCHANGED <<db, users, nextUserId, networkData, nextNetworkId, lastSave, authVars>>

\* register after the hash: createUser, then saveNetworkData for the new id.
\* The users table of a database refuses a second row with the same email.
registerCreate ==
  \E r \in 1..Len(requests) :
    LET req == requests[r]
        created == [req EXCEPT !.user = nextUserId]
    IN  /\ req.pc = "create"
        /\ UNCHANGED <<clientVars, loadVars, saveVars, viewVars, memoVars>>
        /\ IF db /\ findUserByEmail(req.email)
           THEN /\ requests' = [requests EXCEPT ![r].pc = "done"]
                /\ reply' = Reply("register", 0, 500, NoData, NoData)
                /\ actor' = 0
                /\ UNCHANGED <<users, nextUserId, networkData, nextNetworkId, lastSave>>
           ELSE /\ users' = Append(users, User(nextUserId, req.email, req.name))
                /\ nextUserId' = nextUserId + 1
                /\ actor' = nextUserId
                /\ IF db
                   THEN /\ requests' = [requests EXCEPT ![r] = [created EXCEPT !.pc = "select"]]
                        /\ UNCHANGED <<networkData, nextNetworkId, lastSave, reply>>
                   ELSE /\ requests' = [requests EXCEPT ![r] = [created EXCEPT !.pc = "done"]]
                        /\ saveInMemory(created)
        /\ UNCHANGED <<db, authVars>>

\* saveNetworkData with a database: select('id').eq('user_id', userId).single()
saveSelect ==
  \E r \in 1..Len(requests) :
    /\ requests[r].pc = "select"
    /\ requests' = [requests EXCEPT
                      ![r].pc = "write",
                      ![r].existing = single(networkData, requests[r].user) # NoRow]
    /\ actor' = requests[r].user
    /\ UNCHANGED <<db, users, nextUserId, networkData, nextNetworkId, lastSave, reply, authVars>>
    /\ UNCHANGED <<clientVars, loadVars, saveVars, viewVars, memoVars>>

\* saveNetworkData with a database: update when a record was found, insert
\* otherwise; then the handler responds.  The network_data table takes any
\* number of rows per user_id (the schema of initDatabase puts UNIQUE on
\* users.email only).
saveWrite ==
  \E r \in 1..Len(requests) :
    LET req == requests[r] IN
    /\ req.pc = "write"
    /\ IF req.existing
       THEN /\ networkData' = updateWhere(networkData, req.user, req.data)
            /\ UNCHANGED nextNetworkId
       ELSE /\ networkData' = Append(networkData, Row(nextNetworkId, req.user, req.data))
            /\ nextNetworkId' = nextNetworkId + 1
    /\ lastSave' = WithKey(lastSave, req.user, req.data)
    /\ requests' = [requests EXCEPT ![r].pc = "done"]
    /\ reply' = replyAfterSave(req)
    /\ actor' = req.user
    /\ UNCHANGED <<db, users, nextUserId, authVars>>
    /\ UNCHANGED <<clientVars, loadVars, saveVars, viewVars, memoVars>>

(***************************************************************************)
(* SpecServer: the server with requests of the accounts 1 and 2 and of     *)
(* new registrants.                                                        *)
(***************************************************************************)
registeredUsers ==
  << User(1, Email("ann", "x.io"), "Ann"), User(2, Email("bob", "x.io"), "Bob") >>

\* The records as register leaves them.
registeredData == << Row(1, 1, defaultData("Ann")), Row(2, 2, defaultData("Bob")) >>

lastSaveIn(tbl) ==
  LET ids == {tbl[i].user_id : i \in 1..Len(tbl)}
  IN  [u \in ids |-> rowBody(find(tbl, u))]

\* With memoryStore: a process just started (the tokens outlive it), or one
\* with two accounts.  With a database: two accounts, the first of which may
\* be without a record (the save of its registration failed).
InitServer ==
  /\ db \in BOOLEAN
  /\ \/ /\ ~db
        /\ users = << >> /\ nextUserId = 1
        /\ networkData = << >> /\ nextNetworkId = 1
     \/ /\ users = registeredUsers /\ nextUserId = 3
        /\ networkData = registeredData /\ nextNetworkId = 3
     \/ /\ db
        /\ users = registeredUsers /\ nextUserId = 3
        /\ networkData = SubSeq(registeredData, 2, 2) /\ nextNetworkId = 3
  /\ lastSave = lastSaveIn(networkData)
  /\ requests = << >>
  /\ actor = 0
  /\ reply = NoReply
  /\ passwordResetTokens = << >>
  /\ passwords = << >>
  /\ serverNow = 0
  /\ authRequests = << >>
  /\ nextToken = 1
  /\ nodes = defaultNodes /\ links = defaultLinks
  /\ customGroups = << >>
  /\ defaultColorOverrides = << >>
  /\ deletedDefaultCategories = << >>
  /\ now = 0
  /\ events = 0
  /\ last = Ran("load", "", "", TRUE, << >>)
  /\ loadDone
  /\ saveSettled
  /\ viewSettled

NextServer ==
  \/ putNetwork
  \/ getNetwork
  \/ resetNetwork
  \/ register
  \/ registerCreate
  \/ saveSelect
  \/ saveWrite

SpecServer == InitServer /\ [][NextServer]_vars

(***************************************************************************)
(* useNetworkData: loadData, the effect run when the hook is mounted.      *)
(* Signed in, it awaits GET /api/network; otherwise it reads the item kept *)
(* in localStorage.                                                        *)
(***************************************************************************)
\* The text of the localStorage item: JSON text of a value, or text that
\* is no JSON.
Json(value) == [json |-> value]
JsonNull == [null |-> TRUE]
Garbage == [text |-> "{\"nodes\":[{\"id\":"]

\* JSON.parse(savedData) returns
parses(item) == "json" \in DOMAIN item

\* const { nodes, links, ... } = JSON.parse(savedData) goes through
destructures(item) == parses(item) /\ item.json # JsonNull

\* What the item can hold: what saveToServer wrote for a signed-out user,
\* or something else.
LocalItems ==
  { NoItem,
    Json(Data(storedNodes, storedLinks, << >>, << >>, << >>)),
    Json(Data(customSnapshotNodes, categoryLinks, customSnapshotGroups, << >>, << "work" >>)),
    Json(JsonNull),
    Garbage }

\* The bodies GET /api/network answers with.
LoadReplies == {defaultData("Me"), defaultData("Ann")} \cup PutBodies

\* data.updatedAt: absent, or the time of the record
UpdatedAts == {NoDate, Date(0)}

\* An all-empty snapshot in place of the sample data.
fallbackNothing == Data(<< >>, << >>, << >>, << >>, << >>)

\* setNodes(initialNodes); setLinks(initialLinks); setCustomGroups({}); ...
fallbackData == Data(initialNodes, initialLinks, << >>, << >>, << >>)

\* A render that follows setNodes alone: the links are the earlier ones.
setNodesBeforeLinks(d) ==
  /\ nodes' = d.nodes
  /\ links' = links
  /\ customGroups' = d.customGroups
  /\ defaultColorOverrides' = d.defaultColorOverrides
  /\ deletedDefaultCategories' = d.deletedDefaultCategories

\* setNodes(...); setLinks(...); setCustomGroups(...); ...
setSnapshot(d) ==
  /\ nodes' = d.nodes
  /\ links' = d.links
  /\ customGroups' = d.customGroups
  /\ defaultColorOverrides' = d.defaultColorOverrides
  /\ deletedDefaultCategories' = d.deletedDefaultCategories

\* loadData signed in, up to the awaited request
loadDataStart ==
  /\ loadPc = "mount"
  /\ isAuthenticated
  /\ isLoaded' = FALSE
  /\ loadPc' = "waiting"
  /\ UNCHANGED <<clientVars, serverVars, isAuthenticated, localItem, resetCalls, saveVars, viewVars, memoVars>>

\* loadData signed in: the request resolved
loadResolved ==
  \E data \in LoadReplies, updatedAt \in UpdatedAts :
    /\ loadPc = "waiting"
    /\ setSnapshot(data)
    /\ lastSaved' = IF updatedAt # NoDate THEN updatedAt ELSE lastSaved
    /\ isLoaded' = TRUE
    /\ loadPc' = "done"
    /\ last' = Ran("loadData", "server", "resolved", TRUE, << >>)
    /\ UNCHANGED <<now, events, serverVars, isAuthenticated, localItem, resetCalls>>
    /\ UNCHANGED <<isSaving, inFlight, lastCall>>
    /\ saveEffect(TRUE)
    /\ UNCHANGED appViewVars
    /\ layoutEffect(TRUE)
    /\ highlightEffect(TRUE)
    /\ memoMount

\* loadData signed in: the request rejected
loadRejected ==
  /\ loadPc = "waiting"
  /\ setSnapshot(fallbackData)
  /\ isLoaded' = TRUE
  /\ loadPc' = "done"
  /\ last' = Ran("loadData", "server", "rejected", FALSE, << >>)
  /\ UNCHANGED <<now, events, serverVars, isAuthenticated, localItem, resetCalls>>
  /\ UNCHANGED saveStatusVars
  /\ saveEffect(TRUE)
  /\ UNCHANGED appViewVars
  /\ layoutEffect(TRUE)
  /\ highlightEffect(TRUE)
  /\ memoMount

\* loadData signed out, the whole of it
loadDataLocal ==
  /\ loadPc = "mount"
  /\ ~isAuthenticated
  /\ IF localItem = NoItem
     THEN /\ setSnapshot(fallbackData)
          /\ last' = Ran("loadData", "local", "absent", TRUE, << >>)
     ELSE IF destructures(localItem)
          THEN /\ setSnapshot(localItem.json)
               /\ last' = Ran("loadData", "local", "parsed", TRUE, << >>)
          ELSE /\ setSnapshot(fallbackData)
               /\ last' = Ran("loadData", "local", "unparsable", FALSE, << >>)
  /\ isLoaded' = TRUE
  /\ loadPc' = "done"
  /\ UNCHANGED <<now, events, serverVars, isAuthenticated, localItem, resetCalls>>
  /\ UNCHANGED saveStatusVars
  /\ saveEffect(TRUE)
  /\ UNCHANGED appViewVars
  /\ layoutEffect(TRUE)
  /\ highlightEffect(TRUE)
  /\ memoMount

(***************************************************************************)
(* SpecLoad: the hook from its mount on, then the handlers that add and    *)
(* delete persons and categories.  The effect runs once the hook is        *)
(* mounted and the request settles.                                        *)
(***************************************************************************)
InitLoad ==
  /\ nodes = << >> /\ links = << >>
  /\ customGroups = << >>
  /\ defaultColorOverrides = << >>
  /\ deletedDefaultCategories = << >>
  /\ now = 0
  /\ events = 0
  /\ last = Ran("mount", "", "", TRUE, << >>)
  /\ serverIdle
  /\ isAuthenticated \in BOOLEAN
  /\ isLoaded = FALSE
  /\ loadPc = "mount"
  /\ localItem \in (IF isAuthenticated THEN {NoItem} ELSE LocalItems)
  /\ resetCalls = 0
  /\ saveIdle
  /\ viewUnmounted

NextLoad ==
  \/ loadDataStart
  \/ loadResolved
  \/ loadRejected
  \/ loadDataLocal
  \/ handleAddPerson(availableGroups)
  \/ handleDeletePerson
  \/ handleAddCategory
  \/ handleDeleteCategory
  \/ deleteDefaultCategory

SpecLoad ==
  /\ InitLoad
  /\ [][NextLoad]_vars
  /\ WF_vars(loadDataStart \/ loadDataLocal)
  /\ WF_vars(loadResolved \/ loadRejected)

(***************************************************************************)
(* useNetworkData: saveToServer, called by the timeout of the save effect  *)
(* and by forceSave, and the two ways its awaited request ends.            *)
(***************************************************************************)
Snapshot ==
  Data(nodes, links, customGroups, defaultColorOverrides, deletedDefaultCategories)

\* saveToServer up to its await: signed out, the snapshot goes to
\* localStorage; signed in, isSaving is set and the request is sent.
saveToServer(snap) ==
  /\ IF isAuthenticated
     THEN /\ isSaving' = TRUE
          /\ inFlight' = inFlight (+) SetToBag({snap})
          /\ UNCHANGED localItem
     ELSE /\ localItem' = Json(snap)
          /\ UNCHANGED <<isSaving, inFlight>>
  /\ lastCall' = snap
  /\ UNCHANGED <<lastSaved, isAuthenticated, isLoaded, loadPc, resetCalls>>

\* The awaited requests but one that carries snap.
settled(reqs, snap) == reqs (-) SetToBag({snap})

\* A catch block that leaves the saving flag set.
afterSaveFailedStillSaving == TRUE

\* saveToServer, catch and finally: setIsSaving(false)
afterSaveFailedIsSaving == FALSE

\* The timeout set by the save effect fires:
\* saveToServer(nodes, links, ...) with the snapshot of its render.
timerFire ==
  \E t \in timers :
    /\ timers' = timers \ {t}
    /\ saveToServer(t.snap)
    /\ burstSaves' = burstSaves + 1
    /\ last' = Ran("saveToServer", "timeout", "", TRUE, << >>)
    /\ UNCHANGED <<pendingChangesRef, saveTimeoutRef, nextTimerId>>
    /\ UNCHANGED <<nodes, links, customGroups, defaultColorOverrides,
                   deletedDefaultCategories, now, events, serverVars, viewVars, memoVars>>

\* forceSave: the timeout is cleared and the snapshot saved at once.
forceSave ==
  /\ isLoaded
  /\ events < MaxEvents /\ events' = events + 1
  /\ timers' = clearSaveTimeout(timers, saveTimeoutRef)
  /\ saveToServer(Snapshot)
  /\ last' = Ran("saveToServer", "forceSave", "", TRUE, << >>)
  /\ UNCHANGED <<pendingChangesRef, saveTimeoutRef, nextTimerId, burstSaves>>
  /\ UNCHANGED <<nodes, links, customGroups, defaultColorOverrides,
                 deletedDefaultCategories, now, serverVars, viewVars, memoVars>>

\* saveToServer after its await: the request resolved
saveResolved ==
  \E snap \in BagToSet(inFlight), t \in Clock :
    /\ inFlight' = settled(inFlight, snap)
    /\ lastSaved' = Date(t)
    /\ now' = t
    /\ pendingChangesRef' = FALSE
    /\ isSaving' = FALSE
    /\ last' = Ran("saveResolved", "", "", TRUE, << >>)
    /\ UNCHANGED <<lastCall, saveTimeoutRef, timers, nextTimerId, burstSaves>>
    /\ UNCHANGED <<nodes, links, customGroups, defaultColorOverrides,
                   deletedDefaultCategories, events, serverVars, loadVars,
                   viewVars, memoVars>>

\* saveToServer after its await: the request rejected
saveRejected ==
  \E snap \in BagToSet(inFlight) :
    /\ inFlight' = settled(inFlight, snap)
    /\ isSaving' = afterSaveFailedIsSaving
    /\ last' = Ran("saveRejected", "", "", FALSE, << >>)
    /\ UNCHANGED <<lastSaved, lastCall, saveTimerVars>>
    /\ UNCHANGED <<nodes, links, customGroups, defaultColorOverrides,
                   deletedDefaultCategories, now, events, serverVars, loadVars,
                   viewVars, memoVars>>

(***************************************************************************)
(* SpecSave: the hook from the render that follows its load, the timeout   *)
(* of the save effect pending, under the handlers that change each part of *)
(* the saved state.  A pending timeout fires and an awaited request        *)
(* settles.                                                                *)
(***************************************************************************)
InitSave ==
  \E snap \in Snapshots :
    /\ nodes = snap.nodes /\ links = snap.links
    /\ customGroups = << >>
    /\ defaultColorOverrides = << >>
    /\ deletedDefaultCategories = << >>
    /\ now = 0
    /\ events = 0
    /\ serverIdle
    /\ isAuthenticated \in BOOLEAN
    /\ isLoaded = TRUE
    /\ loadPc = "done"
    /\ localItem = (IF isAuthenticated THEN NoItem ELSE Json(Snapshot))
    /\ resetCalls = 0
    /\ last = Ran("loadData", IF isAuthenticated THEN "server" ELSE "local",
                  IF isAuthenticated THEN "resolved" ELSE "parsed", TRUE, << >>)
    /\ isSaving = FALSE
    /\ lastSaved = NoDate
    /\ inFlight = EmptyBag
    /\ lastCall = NoSnapshot
    /\ pendingChangesRef = TRUE
    /\ saveTimeoutRef = 1
    /\ timers = {Timer(1, Snapshot)}
    /\ nextTimerId = 2
    /\ burstSaves = 0
    /\ viewSettled

NextSave ==
  \/ handleAddLink
  \/ handleDeletePerson
  \/ handleAddCategory
  \/ forceSave
  \/ timerFire
  \/ saveResolved
  \/ saveRejected

SpecSave ==
  /\ InitSave
  /\ [][NextSave]_vars
  /\ WF_vars(timerFire)
  /\ WF_vars(saveResolved \/ saveRejected)

(***************************************************************************)
(* The shell's selection state and the pointer on the graph: clicks, the   *)
(* legend, re-centering, and the drag handlers of d3.drag with the timer   *)
(* of the simulation they restart.                                         *)
(***************************************************************************)
Pointers == {"p", "q"}

\* The groups the legend lists as clickable.
legendGroups ==
  ((DefaultKeys \ Range(deletedDefaultCategories)) \cup DOMAIN customGroups) \ {"me"}

\* A handler of the shell that sets no state of the hook.
viewEvent ==
  /\ event
  /\ UNCHANGED <<nodes, links, now>>
  /\ categoriesUnchanged
  /\ saveEffect(FALSE)

\* handleNodeSelect(node)
setSelection(node) ==
  /\ selectedNode' = node
  /\ selectedGroup' = NoGroup

\* A node click that leaves the selection as it was.
keepSelection(node) ==
  /\ selectedNode' = selectedNode
  /\ selectedGroup' = NoGroup

\* handleNodeSelect: setSelectedNode(node); setSelectedGroup(null)
handleNodeSelect(node) == setSelection(node)

\* .on('click', (event, d) => { event.stopPropagation(); onNodeSelect(d) })
nodeClick ==
  \E i \in 1..Len(nodesCopy) :
    /\ dragged = 0
    /\ viewEvent
    /\ handleNodeSelect(nodes[i])
    /\ last' = Ran("nodeClick", nodes[i].id, "", TRUE, << >>)
    /\ UNCHANGED <<centeredNodeId, graphVars, memoVars>>
    /\ selectEffect

\* svg.on('click', () => onNodeSelect(null))
canvasClick ==
  /\ dragged = 0
  /\ Len(nodesCopy) > 0
  /\ viewEvent
  /\ handleNodeSelect(NoNode)
  /\ last' = Ran("canvasClick", "", "", TRUE, << >>)
  /\ UNCHANGED <<centeredNodeId, graphVars, memoVars>>
  /\ highlightEffect(FALSE)

\* Legend -> handleGroupSelect(key)
handleGroupSelect ==
  \E g \in legendGroups :
    /\ dragged = 0
    /\ viewEvent
    /\ selectedGroup' = Group(g)
    /\ selectedNode' = NoNode
    /\ last' = Ran("groupSelect", g, "", TRUE, << >>)
    /\ UNCHANGED <<centeredNodeId, graphVars, memoVars>>
    /\ highlightEffect(FALSE)

\* NodeDetail -> handleSetAsCenter(node.id), header -> handleSetAsCenter('me')
handleSetAsCenter ==
  \E id \in ({SelfId} \ {centeredNodeId})
            \cup (IF selectedNode # NoNode /\ selectedGroup = NoGroup
                  THEN {selectedNode.id} ELSE {}) :
    /\ dragged = 0
    /\ viewEvent
    /\ centeredNodeId' = id
    /\ selectedNode' = NoNode
    /\ UNCHANGED selectedGroup
    /\ last' = Ran("setAsCenter", id, "", TRUE, << >>)
    /\ layoutEffect(id # centeredNodeId)
    /\ highlightEffect(id # centeredNodeId)
    /\ memoEffect

\* d3.drag 'start': if (!event.active) simulation.alphaTarget(0.3).restart();
\* d.fx = d.x; d.fy = d.y
dragStart ==
  \E i \in 1..Len(nodesCopy) :
    /\ dragged = 0
    /\ viewEvent
    /\ alphaTarget' = AlphaDrag
    /\ running' = TRUE
    /\ nodesCopy' = [nodesCopy EXCEPT ![i].fx = nodesCopy[i].x]
    /\ dragged' = i
    /\ last' = Ran("dragStart", nodesCopy[i].id, "", TRUE, << >>)
    /\ UNCHANGED <<previousNodes, linksCopy, alpha, appViewVars, styleVars, memoVars>>

\* d3.drag 'drag': d.fx = event.x; d.fy = event.y
dragMove ==
  \E p \in Pointers :
    /\ dragged # 0
    /\ nodesCopy[dragged].fx # Pointer(p)
    /\ nodesCopy' = [nodesCopy EXCEPT ![dragged].fx = Pointer(p)]
    /\ last' = Ran("drag", nodesCopy[dragged].id, p, TRUE, << >>)
    /\ UNCHANGED <<nodes, links, now, events, serverVars, loadVars, saveVars>>
    /\ categoriesUnchanged
    /\ UNCHANGED <<previousNodes, linksCopy, alphaTarget, alpha, running, dragged, appViewVars, styleVars, memoVars>>

\* A drag end that leaves the pin in place.
unpinNever(copy, i) == copy

\* d.fx = null; d.fy = null
unpin(copy, i) == [copy EXCEPT ![i].fx = NoPin]

\* d3.drag 'end': if (!event.active) simulation.alphaTarget(0); unpin
dragEnd ==
  /\ dragged # 0
  /\ alphaTarget' = AlphaRest
  /\ nodesCopy' = unpin(nodesCopy, dragged)
  /\ dragged' = 0
  /\ last' = Ran("dragEnd", nodesCopy[dragged].id, "", TRUE, << >>)
  /\ UNCHANGED <<nodes, links, now, events, serverVars, loadVars, saveVars>>
  /\ categoriesUnchanged
  /\ UNCHANGED <<previousNodes, linksCopy, alpha, running, appViewVars, styleVars, memoVars>>

\* alpha += (alphaTarget - alpha) * alphaDecay, in tenths
cooled(a, target) ==
  IF a < target THEN a + 1 ELSE IF a > target THEN a - 1 ELSE a

\* A step of the timer of the simulation: tick, the tick listeners
\* (tick.store among them), and the stop once alpha is below alphaMin.
simTick ==
  /\ running
  /\ alpha' = cooled(alpha, alphaTarget)
  /\ nodesCopy' = ticked(nodesCopy)
  /\ previousNodes' = stored(nodesCopy')
  /\ running' = (alpha' > AlphaRest)
  /\ last' = Ran("tick", "", "", TRUE, << >>)
  /\ UNCHANGED <<nodes, links, now, events, serverVars, loadVars, saveVars>>
  /\ categoriesUnchanged
  /\ UNCHANGED <<linksCopy, alphaTarget, dragged, appViewVars, styleVars, memoVars>>

(***************************************************************************)
(* SpecView: the shell and the graph from a loaded snapshot, under the     *)
(* pointer, the legend, re-centering and the handlers that add, edit and   *)
(* delete a person.  The timer of a running simulation keeps ticking.      *)
(***************************************************************************)
NextView ==
  \/ nodeClick
  \/ canvasClick
  \/ handleGroupSelect
  \/ handleSetAsCenter
  \/ handleAddPerson(GraphGroups)
  \/ handleEditPerson(GraphGroups)
  \/ handleDeletePerson
  \/ dragStart
  \/ dragMove
  \/ dragEnd
  \/ simTick

SpecView == Init /\ [][NextView]_vars /\ WF_vars(simTick)

(***************************************************************************)
(* SpecDash: the dashboard rendered over the hook, from a loaded snapshot, *)
(* while persons and links are added and persons deleted.                  *)
(***************************************************************************)
DashStrengths == {8}      \* the strength slider of the add-link form, moved

\* NetworkHealthDashboard is rendered with the nodes and links of the hook.
renderDashboard ==
  /\ isLoaded
  /\ stats = NoStats
  /\ stats' = healthStats(nodes, links)
  /\ UNCHANGED <<clientVars, serverVars, loadVars, saveVars, viewVars, bridges>>

NextDash ==
  \/ renderDashboard
  \/ handleAddPerson(GraphGroups)
  \/ handleAddLinkWith(DashStrengths)
  \/ handleDeletePerson

SpecDash == Init /\ [][NextDash]_vars

(***************************************************************************)
(* SpecStats: NetworkGraph and NetworkHealthDashboard rendered once with   *)
(* nodes and links drawn from the lists below: persons with distinct ids,  *)
(* the self node first and alone in group 'me', and links between them,    *)
(* to themselves and to a person that is not there.                        *)
(***************************************************************************)
MaxStatLinks == 2

StatStrengths == 1..10

StatPersons ==
  << Person(SelfId, "Me", "me"), Person("a", "A", "family"),
     Person("b", "B", "work"), Person("c", "C", "family"),
     Person("d", "D", "friends") >>

StatNodeLists == {SubSeq(StatPersons, 1, n) : n \in {1, 4, 5}}

StatLinkPool ==
  {Link(Bare(SelfId), Bare("a"), s) : s \in StatStrengths}
    \cup {Link(Bare("a"), Bare("b"), s) : s \in StatStrengths}
    \cup {Link(Resolved("c"), Resolved("a"), s) : s \in StatStrengths}
    \cup {Link(Bare("b"), Bare("gone"), s) : s \in StatStrengths}

StatLinkLists == UNION {[1..n -> StatLinkPool] : n \in 0..MaxStatLinks}

\* self + A(family), B(work), C(family) with links A-B and A-C, and me-A
BridgeExample ==
  [nodes |-> SubSeq(StatPersons, 1, 4),
   links |-> << Link(Bare("a"), Bare("b"), 5), Link(Bare("a"), Bare("c"), 5),
                Link(Bare(SelfId), Bare("a"), 5) >>]

\* five nodes and four links
DensityExample ==
  [nodes |-> StatPersons,
   links |-> << Link(Bare(SelfId), Bare("a"), 5), Link(Bare(SelfId), Bare("b"), 5),
                Link(Bare(SelfId), Bare("c"), 5), Link(Bare(SelfId), Bare("d"), 5) >>]

\* strengths 1, 3, 5, 7, 9, 10
BucketExample ==
  [nodes |-> StatPersons,
   links |-> << Link(Bare(SelfId), Bare("a"), 1), Link(Bare(SelfId), Bare("b"), 3),
                Link(Bare(SelfId), Bare("c"), 5), Link(Bare(SelfId), Bare("d"), 7),
                Link(Bare("a"), Bare("b"), 9), Link(Bare("a"), Bare("c"), 10) >>]

\* strength 3, strength 4, and strength 2 to a person that is not there
NeglectedExample ==
  [nodes |-> SubSeq(StatPersons, 1, 4),
   links |-> << Link(Bare(SelfId), Bare("a"), 3), Link(Bare(SelfId), Bare("b"), 4),
                Link(Bare("c"), Bare("gone"), 2) >>]

StatGraphs ==
  {[nodes |-> ns, links |-> ls] : ns \in StatNodeLists, ls \in StatLinkLists}
    \cup {BridgeExample, DensityExample, BucketExample, NeglectedExample}

InitStats ==
  /\ \E g \in StatGraphs : nodes = g.nodes /\ links = g.links
  /\ customGroups = << >>
  /\ defaultColorOverrides = << >>
  /\ deletedDefaultCategories = << >>
  /\ now = 0
  /\ events = 0
  /\ last = Ran("load", "", "", TRUE, << >>)
  /\ serverIdle
  /\ loadDone
  /\ saveSettled
  /\ viewUnmounted

\* NetworkGraph is rendered with nodes and links: the memo, then the layout.
renderGraph ==
  /\ bridges = NoBridges
  /\ UNCHANGED <<clientVars, serverVars, loadVars, saveVars, appViewVars, stats>>
  /\ bridges' = bridgeData(nodes, links)
  /\ layoutEffect(TRUE)
  /\ highlightEffect(TRUE)

NextStats ==
  \/ renderGraph
  \/ renderDashboard

SpecStats == InitStats /\ [][NextStats]_vars

(***************************************************************************)
(* The API server: password reset.  POST /api/auth/forgot-password makes   *)
(* a token for the account of an email; POST /api/auth/reset-password      *)
(* looks the token up, and after the awaited password hash sets the        *)
(* password and deletes the token.                                         *)
(***************************************************************************)
TokenLife == 1            \* expiresAt: one hour from now
MinPasswordLength == 6

AuthReply(status, text) == [status |-> status, text |-> text]
NoAuthReply == AuthReply(0, "")

ForgotMessage ==
  "If an account with that email exists, a password reset link has been sent."

Password(text, length) == [text |-> text, length |-> length]

\* bcrypt.hash(password, 10)
Hash(password) == "bcrypt(" \o password.text \o ")"

ResetToken(userId, email, token, expiresAt) ==
  [user_id |-> userId, email |-> email, token |-> token, expires_at |-> expiresAt]

\* crypto.randomBytes(32).toString('hex')
randomToken(n) == "tok" \o ToString(n)

\* The request bodies.
ForgotEmails == {NoEmail, Email("ann", "x.io"), Email("zed", "x.io")}
ResetTokens == {"", "tok0", "tok1"}
ResetPasswords == {Password("secret1", 7), Password("secret2", 7), Password("short", 5)}

AuthRequest(kind, email, token, password, pc, userId, answer) ==
  [kind |-> kind, email |-> email, token |-> token, password |-> password,
   pc |-> pc, user_id |-> userId, reply |-> answer]

\* findUserByEmail(email).id
userIdByEmail(email) ==
  users[CHOOSE i \in 1..Len(users) : users[i].email = email].id

\* passwordResetTokens.filter(t => t.user_id !== userId)
tokensNotOf(tbl, userId) == LET keep(t) == t.user_id # userId IN SelectSeq(tbl, keep)

\* createPasswordResetToken: the tokens of the user go, the new one is added
createPasswordResetToken(tbl, userId, email, token, at) ==
  Append(tokensNotOf(tbl, userId), ResetToken(userId, email, token, at + TokenLife))

\* findPasswordResetToken(token)
findPasswordResetToken(tbl, token) ==
  LET found == {i \in 1..Len(tbl) : tbl[i].token = token}
  IN  IF found = {} THEN NoRow
      ELSE tbl[CHOOSE i \in found : \A j \in found : i <= j]

\* deletePasswordResetToken(token)
deletePasswordResetToken(tbl, token) ==
  LET keep(t) == t.token # token IN SelectSeq(tbl, keep)

\* updateUserPassword(userId, hashedPassword)
updateUserPassword(pws, userId, hashedPassword) ==
  IF userId \in DOMAIN pws THEN [pws EXCEPT ![userId] = hashedPassword] ELSE pws

\* new Date(resetToken.expires_at) < new Date()
expired(resetToken, at) == resetToken.expires_at < at

authReceive ==
  /\ Len(authRequests) < MaxRequests
  /\ UNCHANGED <<db, users, networkData, nextUserId, nextNetworkId, requests,
                 lastSave, actor, reply>>
  /\ UNCHANGED <<clientVars, loadVars, saveVars, viewVars, memoVars>>

\* A response that tells whether the account exists.
forgotPasswordReplyNotFound(found) ==
  IF found THEN AuthReply(200, ForgotMessage)
  ELSE AuthReply(404, "No account with that email")

\* forgot-password: res.json({ message }) of both branches
forgotPasswordReply(found) == AuthReply(200, ForgotMessage)

\* POST /api/auth/forgot-password.  The response is sent after the token is
\* made; the steps of one request are taken together, no other handler
\* reads the tokens of a user between them.
forgotPassword ==
  \E email \in ForgotEmails :
    LET found == email # NoEmail /\ findUserByEmail(email)
        answer == IF email = NoEmail THEN AuthReply(400, "Email is required")
                  ELSE forgotPasswordReply(found)
    IN  /\ authReceive
        /\ authRequests' =
             Append(authRequests,
                    AuthRequest("forgot", email, "", Password("", 0), "done",
                                IF found THEN userIdByEmail(email) ELSE 0, answer))
        /\ IF found
           THEN /\ passwordResetTokens' =
                     createPasswordResetToken(passwordResetTokens, userIdByEmail(email),
                                              email, randomToken(nextToken), serverNow)
                /\ nextToken' = nextToken + 1
           ELSE UNCHANGED <<passwordResetTokens, nextToken>>
        /\ UNCHANGED <<passwords, serverNow>>

\* POST /api/auth/reset-password, up to the awaited password hash
resetPassword ==
  \E token \in ResetTokens, password \in ResetPasswords :
    LET resetToken == findPasswordResetToken(passwordResetTokens, token)
        refused(text) ==
          authRequests' =
            Append(authRequests,
                   AuthRequest("reset", NoEmail, token, password, "done", 0,
                               AuthReply(400, text)))
    IN  /\ authReceive
        /\ UNCHANGED <<passwords, serverNow, nextToken>>
        /\ IF token = ""
           THEN /\ refused("Token and new password are required")
                /\ UNCHANGED passwordResetTokens
           ELSE IF password.length < MinPasswordLength
           THEN /\ refused("Password must be at least 6 characters")
                /\ UNCHANGED passwordResetTokens
           ELSE IF resetToken = NoRow
           THEN /\ refused("Invalid or expired reset link")
                /\ UNCHANGED passwordResetTokens
           ELSE IF expired(resetToken, serverNow)
           THEN /\ refused("Reset link has expired. Please request a new one.")
                /\ passwordResetTokens' =
                     deletePasswordResetToken(passwordResetTokens, token)
           ELSE /\ authRequests' =
                     Append(authRequests,
                            AuthRequest("reset", NoEmail, token, password, "hash",
                                        resetToken.user_id, NoAuthReply))
                /\ UNCHANGED passwordResetTokens

\* reset-password after the hash: updateUserPassword, deletePasswordResetToken
resetPasswordUpdate ==
  \E r \in 1..Len(authRequests) :
    LET req == authRequests[r] IN
    /\ req.pc = "hash"
    /\ passwords' = updateUserPassword(passwords, req.user_id, Hash(req.password))
    /\ passwordResetTokens' = deletePasswordResetToken(passwordResetTokens, req.token)
    /\ authRequests' =
         [authRequests EXCEPT
            ![r].pc = "done",
            ![r].reply = AuthReply(200, "Password has been reset successfully. You can now sign in with your new password.")]
    /\ UNCHANGED <<serverNow, nextToken>>
    /\ UNCHANGED <<db, users, networkData, nextUserId, nextNetworkId, requests,
                   lastSave, actor, reply>>
    /\ UNCHANGED <<clientVars, loadVars, saveVars, viewVars, memoVars>>

\* An hour passes on the server.
hourPasses ==
  /\ serverNow < MaxClock
  /\ serverNow' = serverNow + 1
  /\ UNCHANGED <<passwordResetTokens, passwords, authRequests, nextToken>>
  /\ UNCHANGED <<db, users, networkData, nextUserId, nextNetworkId, requests,
                 lastSave, actor, reply>>
  /\ UNCHANGED <<clientVars, loadVars, saveVars, viewVars, memoVars>>

(***************************************************************************)
(* SpecAuth: the server with the accounts of Ann and Bob; Ann may hold a   *)
(* reset token made an hour before it expires.                             *)
(***************************************************************************)
InitAuth ==
  /\ db \in BOOLEAN
  /\ users = registeredUsers /\ nextUserId = 3
  /\ networkData = registeredData /\ nextNetworkId = 3
  /\ lastSave = lastSaveIn(networkData)
  /\ requests = << >>
  /\ actor = 0
  /\ reply = NoReply
  /\ passwordResetTokens \in
       { << >>, << ResetToken(1, Email("ann", "x.io"), "tok0", 0) >> }
  /\ passwords = [id \in {1, 2} |-> Hash(Password("firstpw", 7))]
  /\ serverNow = 0
  /\ authRequests = << >>
  /\ nextToken = 1
  /\ nodes = defaultNodes /\ links = defaultLinks
  /\ customGroups = << >>
  /\ defaultColorOverrides = << >>
  /\ deletedDefaultCategories = << >>
  /\ now = 0
  /\ events = 0
  /\ last = Ran("load", "", "", TRUE, << >>)
  /\ loadDone
  /\ saveSettled
  /\ viewSettled

NextAuth ==
  \/ forgotPassword
  \/ resetPassword
  \/ resetPasswordUpdate
  \/ hourPasses

SpecAuth == InitAuth /\ [][NextAuth]_vars

(***************************************************************************)
(* Reset: handleReset of the shell and resetData of the hook.  Signed out, *)
(* resetData runs to its end inside the handler; signed in, it runs up to  *)
(* the awaited request and its set calls follow the reply.  The set calls  *)
(* made in one turn are committed by one render, so the effects run once   *)
(* on the whole of them.                                                   *)
(***************************************************************************)
\* The bodies POST /api/network/reset answers with.
ResetReplies == {defaultData("Me"), defaultData("Ann")}

\* handleReset -> resetData, then setSelectedNode(null); setSelectedGroup(null)
handleReset ==
  /\ isLoaded
  /\ events < MaxEvents /\ events' = events + 1
  /\ IF isAuthenticated
     THEN /\ resetCalls' = resetCalls + 1
          /\ UNCHANGED <<nodes, links, localItem>>
          /\ categoriesUnchanged
     ELSE /\ setSnapshot(fallbackData)
          /\ localItem' = Json(fallbackData)
          /\ UNCHANGED resetCalls
  /\ last' = Ran("resetData", "", "", TRUE, << >>)
  /\ UNCHANGED <<now, serverVars, isAuthenticated, isLoaded, loadPc, saveStatusVars>>
  /\ saveEffect(~isAuthenticated)
  /\ selectedNode' = NoNode
  /\ selectedGroup' = NoGroup
  /\ UNCHANGED centeredNodeId
  /\ layoutEffect(~isAuthenticated)
  /\ highlightEffect(~isAuthenticated)
  /\ memoEffect

\* resetData signed in: the request resolved
resetResolved ==
  \E data \in ResetReplies, t \in Clock :
    /\ resetCalls > 0
    /\ resetCalls' = resetCalls - 1
    /\ setSnapshot(Data(data.nodes, data.links, << >>, << >>, << >>))
    /\ lastSaved' = Date(t)
    /\ now' = t
    /\ last' = Ran("resetData", "server", "resolved", TRUE, << >>)
    /\ UNCHANGED <<events, serverVars, isAuthenticated, isLoaded, loadPc, localItem>>
    /\ UNCHANGED <<isSaving, inFlight, lastCall>>
    /\ saveEffect(TRUE)
    /\ UNCHANGED appViewVars
    /\ layoutEffect(TRUE)
    /\ highlightEffect(TRUE)
    /\ memoEffect

\* resetData signed in: the request rejected, console.error
resetRejected ==
  /\ resetCalls > 0
  /\ resetCalls' = resetCalls - 1
  /\ last' = Ran("resetData", "server", "rejected", FALSE, << >>)
  /\ UNCHANGED <<nodes, links, now, events, serverVars, isAuthenticated, isLoaded,
                 loadPc, localItem, saveVars, viewVars, memoVars>>
  /\ categoriesUnchanged

(***************************************************************************)
(* SpecReset: the hook from its mount on, under the handlers that change   *)
(* nodes and links in one turn.                                            *)
(***************************************************************************)
NextReset ==
  \/ loadDataStart
  \/ loadResolved
  \/ loadRejected
  \/ loadDataLocal
  \/ handleDeletePerson
  \/ handleBulkAddOf({1}, GraphGroups)
  \/ handleReset
  \/ resetResolved
  \/ resetRejected

SpecReset == InitLoad /\ [][NextReset]_vars

(***************************************************************************)
(* SpecStyle: the graph under clicks and under the handlers of the detail  *)
(* panel, which change links and persons while a node stays selected.      *)
(***************************************************************************)
NextStyle ==
  \/ nodeClick
  \/ canvasClick
  \/ handleSetAsCenter
  \/ handleAddLink
  \/ handleEditPerson(GraphGroups)
  \/ handleUpdateLink
  \/ handleDeleteLink
  \/ handleDeletePerson

SpecStyle == Init /\ [][NextStyle]_vars

(***************************************************************************)
(* SpecMount: the hook from its mount on with the timeout of the save      *)
(* effect and the requests of saveToServer, under handlers that change     *)
(* persons and categories.                                                 *)
(***************************************************************************)
NextMount ==
  \/ loadDataStart
  \/ loadResolved
  \/ loadRejected
  \/ loadDataLocal
  \/ timerFire
  \/ saveResolved
  \/ saveRejected
  \/ handleDeletePerson
  \/ handleAddCategory

SpecMount ==
  /\ InitLoad
  /\ [][NextMount]_vars
  /\ WF_vars(loadDataStart \/ loadDataLocal)
  /\ WF_vars(loadResolved \/ loadRejected)
  /\ WF_vars(timerFire)
  /\ WF_vars(saveResolved \/ saveRejected)

(***************************************************************************)
(* SpecSync: the hook of a signed-in or signed-out user next to the        *)
(* server with memoryStore.  A request of saveToServer is in flight until  *)
(* PUT /api/network has handled it and the response has come back; the     *)
(* requests in flight are handled in any order.  Every request succeeds.   *)
(***************************************************************************)
\* req.user.id of the token the client sends
ClientUser == 1

\* PUT /api/network handles one of the requests in flight, and
\* saveToServer goes on after its await.
saveApplied ==
  \E snap \in BagToSet(inFlight), t \in Clock :
    /\ ~db
    /\ Len(requests) < MaxRequests
    /\ startSave(Request("put", ClientUser, "start", snap, NoData))
    /\ actor' = ClientUser
    /\ UNCHANGED <<db, users, nextUserId, authVars>>
    /\ inFlight' = settled(inFlight, snap)
    /\ lastSaved' = Date(t)
    /\ now' = t
    /\ pendingChangesRef' = FALSE
    /\ isSaving' = FALSE
    /\ last' = Ran("saveResolved", "", "", TRUE, << >>)
    /\ UNCHANGED <<lastCall, saveTimeoutRef, timers, nextTimerId, burstSaves>>
    /\ UNCHANGED <<nodes, links, customGroups, defaultColorOverrides,
                   deletedDefaultCategories, events, loadVars, viewVars, memoVars>>

NextSync ==
  \/ handleAddLink
  \/ handleDeletePerson
  \/ forceSave
  \/ timerFire
  \/ saveApplied

SpecSync ==
  /\ InitSave
  /\ [][NextSync]_vars
  /\ WF_vars(timerFire)
  /\ WF_vars(saveApplied)

(***************************************************************************)
(* SpecCenter: the shell of a signed-in user with a loaded snapshot and,   *)
(* possibly, a node clicked, under set-as-center, delete and reset.        *)
(***************************************************************************)
InitCenter ==
  /\ \E snap \in Snapshots : nodes = snap.nodes /\ links = snap.links
  /\ customGroups = << >>
  /\ defaultColorOverrides = << >>
  /\ deletedDefaultCategories = << >>
  /\ now = 0
  /\ events = 0
  /\ serverIdle
  /\ loadDone
  /\ saveSettled
  /\ centeredNodeId = SelfId
  /\ selectedNode \in {NoNode} \cup Range(nodes)
  /\ selectedGroup = NoGroup
  /\ last = IF selectedNode = NoNode THEN Ran("load", "", "", TRUE, << >>)
            ELSE Ran("nodeClick", selectedNode.id, "", TRUE, << >>)
  /\ previousNodes = emptyCache
  /\ nodesCopy = seeded(nodes, SelfId, emptyCache)
  /\ linksCopy = links
  /\ linkStyles = highlightLinks(links, selectedNode, customGroups, defaultColorOverrides)
  /\ alphaTarget = AlphaRest
  /\ alpha = AlphaRest
  /\ running = FALSE
  /\ dragged = 0
  /\ bridges = bridgeData(nodes, links)
  /\ stats = NoStats

NextCenter ==
  \/ nodeClick
  \/ handleSetAsCenter
  \/ handleDeletePerson
  \/ handleReset
  \/ resetResolved
  \/ resetRejected

SpecCenter == InitCenter /\ [][NextCenter]_vars

\* A step in which the handler `op` ran.
Handled(op) == events' = events + 1 /\ last'.op = op

\* The links of a list that touch person x, and those that do not.
Touches(l, x) == x \in PairOf(l)
LinksWithout(ls, x) == LET keep(l) == ~Touches(l, x) IN SelectSeq(ls, keep)
NodesWithout(ns, x) == LET keep(n) == n.id # x IN SelectSeq(ns, keep)

(***************************************************************************)
(* C1. No two links connect the same unordered pair of person ids, in      *)
(* every state reachable from a duplicate-free snapshot through the person *)
(* and link handlers.                                                      *)
(***************************************************************************)
C1_NoDuplicateLinks ==
  \A i, j \in 1..Len(links) : i # j => PairOf(links[i]) # PairOf(links[j])

\* C1, second half, which the code keeps: addLink(a,b) called when a link
\* (a,b) or (b,a) exists returns false and leaves the link list unchanged.
C1_AddLinkRejectsExisting ==
  [][ (/\ Handled("addLink")
       /\ \E l \in Range(links) : PairOf(l) = {last'.a, last'.b})
      => (~last'.ok /\ links' = links) ]_vars

(***************************************************************************)
(* C2. After deletePerson(x) for a non-self person x, x is not in the node *)
(* list, no remaining link has x as source or target (bare id or resolved  *)
(* object), and the links not touching x and the other persons are         *)
(* unchanged.                                                              *)
(***************************************************************************)
C2_DeletePersonCascades ==
  [][ (Handled("deletePerson") /\ last'.a # SelfId)
      => LET x == last'.a
         IN  /\ x \notin NodeIds(nodes')
             /\ \A l \in Range(links') : ~Touches(l, x)
             /\ links' = LinksWithout(links, x)
             /\ nodes' = NodesWithout(nodes, x) ]_vars

\* dad is deleted from the stored snapshot: the link mom-dad, stored with
\* resolved endpoints, is gone and the link me-mom is kept.
C2_Witness ==
  /\ last.op = "deletePerson" /\ last.a = "dad" /\ last.ok
  /\ events = 1
  /\ links = << Link(Bare(SelfId), Bare("mom"), 9) >>
  /\ NodeIds(nodes) = {SelfId, "mom"}

(***************************************************************************)
(* C3. deletePerson('me') always fails, leaving nodes and links unchanged, *)
(* and the self node is in the node list in every reachable state.         *)
(***************************************************************************)
C3_SelfNodeProtected ==
  /\ [][ (Handled("deletePerson") /\ last'.a = SelfId)
         => (~last'.ok /\ nodes' = nodes /\ links' = links) ]_vars
  /\ [](SelfId \in NodeIds(nodes))

C3_Witness ==
  /\ last.op = "deletePerson" /\ last.a = SelfId /\ ~last.ok
  /\ SelfId \in NodeIds(nodes)

C5_UniquePersonIds ==
  \A i, j \in 1..Len(nodes) : i # j => nodes[i].id # nodes[j].id

(***************************************************************************)
(* C6. After deleteCategory(k) on a custom category k, every person whose  *)
(* group was k has group 'friends', no person has group k, k is no key of  *)
(* the custom categories, and the other persons' groups, the links and the *)
(* other categories are unchanged.                                         *)
(***************************************************************************)
C6_DeleteCategoryReassigns ==
  [][ Handled("deleteCategory")
      => LET k == last'.a
         IN  /\ Len(nodes') = Len(nodes)
             /\ \A i \in 1..Len(nodes) :
                   /\ nodes[i].group = k => nodes'[i].group = "friends"
                   /\ nodes[i].group # k => nodes'[i] = nodes[i]
                   /\ nodes'[i].id = nodes[i].id /\ nodes'[i].name = nodes[i].name
                   /\ nodes'[i].group # k
             /\ k \notin DOMAIN customGroups'
             /\ DOMAIN customGroups' = DOMAIN customGroups \ {k}
             /\ \A c \in DOMAIN customGroups' : customGroups'[c] = customGroups[c]
             /\ links' = links
             /\ defaultColorOverrides' = defaultColorOverrides
             /\ deletedDefaultCategories' = deletedDefaultCategories ]_vars

\* The custom category gym is deleted and its member is in friends.
C6_Witness ==
  /\ last.op = "deleteCategory" /\ last.a = "gym"
  /\ \E i \in 1..Len(nodes) : nodes[i].id = "gym" /\ nodes[i].group = "friends"
  /\ "gym" \notin DOMAIN customGroups

(***************************************************************************)
(* C7. Every person's group is the key of a category that exists and is    *)
(* not hidden, in every state reachable through the person and category    *)
(* handlers.                                                               *)
(***************************************************************************)
C7_GroupsAreVisibleCategories ==
  \A i \in 1..Len(nodes) : CategoryVisible(nodes[i].group)

(***************************************************************************)
(* C8. Category keys are unique across the default and the custom set: an  *)
(* add whose derived key is a default key or a custom key is rejected and  *)
(* leaves the category table unchanged; no custom key is a default key and *)
(* no add overwrites a custom category.                                    *)
(***************************************************************************)
C8_CategoryKeysUnique ==
  /\ [][ Handled("addCategory")
         => /\ (last'.a \in DefaultKeys \cup DOMAIN customGroups)
                 => (~last'.ok /\ customGroups' = customGroups
                     /\ defaultColorOverrides' = defaultColorOverrides
                     /\ deletedDefaultCategories' = deletedDefaultCategories)
            /\ \A k \in DOMAIN customGroups :
                 k \in DOMAIN customGroups' /\ customGroups'[k] = customGroups[k] ]_vars
  /\ [](DOMAIN customGroups \cap DefaultKeys = {})

\* "GYM?" is typed while the custom category gym exists: the add is refused.
C8_Witness ==
  /\ last.op = "addCategory" /\ last.a = "gym" /\ last.b = "GYM?" /\ ~last.ok
  /\ "gym" \in DOMAIN customGroups /\ customGroups["gym"].label = "Gym"

(***************************************************************************)
(* C9. Network data is kept per account: no step taken for a request of    *)
(* account A changes the records of another account B, and GET             *)
(* /api/network for A returns the nodes, links and category state of the   *)
(* last save applied for A.                                                *)
(***************************************************************************)
C9_AccountsIsolated ==
  [][ \A b \in 1..(nextUserId + 1) :
        b # actor' => rowsOf(networkData', b) = rowsOf(networkData, b) ]_vars

C9_GetReturnsLastSave ==
  (reply.kind = "get" /\ reply.status = 200 /\ reply.asOf # NoData)
    => reply.body = reply.asOf

(***************************************************************************)
(* C10. When the load fails (the request rejects, or the stored item       *)
(* cannot be read), the graph becomes the sample snapshot with no custom   *)
(* categories, no colour overrides and no hidden defaults; and on every    *)
(* load path isLoaded eventually becomes true.                             *)
(***************************************************************************)
C10_LoadFallsBack ==
  /\ [][ ( \/ loadPc = "waiting" /\ loadPc' = "done" /\ last'.b = "rejected"
           \/ /\ loadPc = "mount" /\ loadPc' = "done"
              /\ localItem # NoItem /\ ~destructures(localItem) )
         => ( /\ Len(nodes') = 15 /\ Len(links') = 29
              /\ nodes' = initialNodes /\ links' = initialLinks
              /\ customGroups' = << >>
              /\ defaultColorOverrides' = << >>
              /\ deletedDefaultCategories' = << >>
              /\ isLoaded' ) ]_vars
  /\ <>isLoaded

\* The request was rejected and the sample network is shown.
C10_Witness ==
  /\ last.op = "loadData" /\ last.b = "rejected"
  /\ isLoaded /\ loadPc = "done"
  /\ Len(nodes) = 15 /\ nodes[1].id = "me" /\ customGroups = << >>
(***************************************************************************)
(* C11. A save that fails is not fatal: in the step in which the awaited   *)
(* request rejects, nodes, links and the three parts of the category state *)
(* keep their values, lastSaved keeps its value and isSaving is false      *)
(* afterwards; and in every state that follows a rejection the handlers    *)
(* and the save calls are enabled as they are in any other state.          *)
(***************************************************************************)
SaveFailed == last'.op = "saveRejected" /\ inFlight' # inFlight

C11_FailedSaveNonFatal ==
  /\ [][ SaveFailed =>
           /\ UNCHANGED <<nodes, links, customGroups, defaultColorOverrides,
                          deletedDefaultCategories, lastSaved>>
           /\ isSaving' = FALSE ]_vars
  /\ [] ( last.op = "saveRejected" =>
            /\ events < MaxEvents =>
                 /\ ENABLED handleAddLink
                 /\ ENABLED handleDeletePerson
                 /\ ENABLED handleAddCategory
                 /\ ENABLED forceSave
            /\ timers # {} => ENABLED timerFire
            /\ inFlight # EmptyBag => ENABLED (saveResolved \/ saveRejected) )

\* A save failed after an earlier one had succeeded, with changes pending.
C11_Witness ==
  /\ last.op = "saveRejected"
  /\ lastSaved # NoDate
  /\ ~isSaving
  /\ timers # {}

(***************************************************************************)
(* C12. While the hook is mounted and loaded, a change of nodes, links,    *)
(* custom categories, color overrides or deleted defaults cancels the save *)
(* scheduled before it and schedules one carrying the changed snapshot, so *)
(* at most one save is scheduled and it carries the current snapshot; the  *)
(* scheduled save is called once, and a scheduled save is eventually       *)
(* followed by a state with no save scheduled in which the last save call  *)
(* carried the current snapshot.                                           *)
(***************************************************************************)
Changed == Snapshot' # Snapshot

Recomputed ==
  /\ events' = events + 1
  /\ last'.op \in {"addPerson", "updatePerson", "deletePerson"}
  /\ nodes' # nodes
  /\ centeredNodeId' = centeredNodeId

C13_SeededFromCache ==
  [][ Recomputed =>
        \A i \in 1..Len(nodesCopy') :
          LET n == nodesCopy'[i]
          IN  n.id # centeredNodeId =>
                n.seed = IF n.id \in DOMAIN previousNodes
                         THEN previousNodes[n.id]
                         ELSE Anchor(n.group) ]_vars

\* C13, the part the code keeps: a recomputed layout seeds the center in
\* the middle and leaves the cache empty.
C13_CacheEmptyAfterLayout ==
  [][ Recomputed =>
        /\ previousNodes' = emptyCache
        /\ \A i \in 1..Len(nodesCopy') :
             nodesCopy'[i].seed \in {Center, Anchor(nodesCopy'[i].group)} ]_vars

(***************************************************************************)
(* C14. A drag takes the simulation from settled to dragging and back:     *)
(* drag start pins the node where it is and reheats the simulation, each   *)
(* move sets the pin to the pointer, a tick puts the dragged node on the   *)
(* pin applied last, drag end removes the pin and sets the alpha target    *)
(* back to rest; while no node is dragged no node is pinned, and the       *)
(* simulation then settles unless another drag starts.                     *)
(***************************************************************************)
Settled == ~running /\ alpha = AlphaRest /\ alphaTarget = AlphaRest

Pinned == {i \in 1..Len(nodesCopy) : nodesCopy[i].fx # NoPin}

C14_DragCycle ==
  /\ [] /\ dragged = 0 => Pinned = {}
        /\ dragged # 0 => Pinned = {dragged} /\ running /\ alphaTarget = AlphaDrag
        /\ running \/ Settled
  /\ [][ dragged = 0 /\ dragged' # 0 =>
           /\ Settled \/ running
           /\ nodesCopy'[dragged'].fx = nodesCopy[dragged'].x
           /\ running' /\ alphaTarget' = AlphaDrag ]_vars
  /\ [][ last'.op = "drag" /\ nodesCopy' # nodesCopy =>
           nodesCopy'[dragged].fx = Pointer(last'.b) ]_vars
  /\ [][ last'.op = "tick" /\ dragged # 0 =>
           nodesCopy'[dragged].x = nodesCopy[dragged].fx ]_vars
  /\ [][ last'.op = "dragEnd" /\ dragged # 0 =>
           /\ Pinned' = {}
           /\ alphaTarget' = AlphaRest ]_vars
  /\ (dragged = 0) ~> (Settled \/ dragged # 0)

\* A node was dragged and released, and the simulation has ticked to rest.
C14_Witness ==
  /\ last.op = "tick"
  /\ dragged = 0
  /\ Settled
  /\ previousNodes # emptyCache

(***************************************************************************)
(* C15. The selection is one node at most: selectedNode is NoNode or one   *)
(* node of the graph, never together with a selected group; a click on a   *)
(* node makes that node the selection whatever was selected, a click on    *)
(* the canvas leaves nothing selected; after any sequence of node clicks,  *)
(* canvas clicks, group selections, deletions and re-centerings.           *)
(***************************************************************************)
Selection == IF selectedNode = NoNode THEN {} ELSE {selectedNode.id}

C15_SingleSelection ==
  /\ [] /\ Selection \subseteq NodeIds(nodes)
        /\ Cardinality(Selection) <= 1
        /\ selectedNode = NoNode \/ selectedGroup = NoGroup
  /\ [][ Handled("nodeClick") =>
           /\ selectedNode' \in Range(nodes)
           /\ Selection' = {last'.a} ]_vars
  /\ [][ Handled("canvasClick") => Selection' = {} ]_vars

\* A second click, on a node other than the self node, with one selected.
C15_Witness ==
  /\ events = 2
  /\ last.op = "nodeClick"
  /\ Selection = {"mom"}

(***************************************************************************)
(* C16. From the graph that holds the self node only, adding the person    *)
(* Alex in group friends and then a link of strength 8 between 'me' and    *)
(* the id the person was given leaves 2 nodes and 1 link, and the          *)
(* dashboard shows avgConnectionsPerPerson 1.0 and density 100.0.          *)
(***************************************************************************)
AlexAddedThenLinked ==
  /\ events = 2
  /\ last.op = "addLink" /\ last.ok /\ last.a = SelfId
  /\ Len(nodes) = 2
  /\ nodes[1] = Person(SelfId, "Me", "me")
  /\ nodes[2].name = "Alex" /\ nodes[2].group = "friends"
  /\ last.b = nodes[2].id
  /\ stats # NoStats

C16_AddPersonAndLinkStats ==
  AlexAddedThenLinked =>
    /\ Len(nodes) = 2
    /\ links = << Link(Bare(SelfId), Bare(nodes[2].id), 8) >>
    /\ stats.totalPeople = 1
    /\ stats.totalConnections = 1
    /\ stats.avgConnectionsPerPerson = Fixed("1.0")
    /\ stats.density = Fixed("100.0")

C16_Witness == AlexAddedThenLinked /\ stats.density = Fixed("100.0")

(***************************************************************************)
(* C17. In a rendered graph a node other than the self node is a key of    *)
(* bridgeData exactly when a link, in either direction, joins it to a      *)
(* person whose group is neither its own nor 'me', and its value is the    *)
(* set of those groups; the self node is no key.  For self, A(family),     *)
(* B(work), C(family) with links A-B and A-C: A -> {work}, B -> {family}.  *)
(***************************************************************************)
foreignGroups(n) ==
  {m.group : m \in {m \in Range(nodes) :
                      /\ m.group \notin {n.group, "me"}
                      /\ \E l \in Range(links) :
                           \/ SourceId(l) = n.id /\ TargetId(l) = m.id
                           \/ TargetId(l) = n.id /\ SourceId(l) = m.id}}

C17_BridgesReachForeignGroups ==
  bridges # NoBridges =>
    /\ SelfId \notin DOMAIN bridges
    /\ DOMAIN bridges \subseteq NodeIds(nodes)
    /\ \A n \in Range(nodes) :
         n.id # SelfId =>
           /\ n.id \in DOMAIN bridges <=> foreignGroups(n) # {}
           /\ n.id \in DOMAIN bridges => bridges[n.id] = foreignGroups(n)
    /\ (nodes = BridgeExample.nodes /\ links = BridgeExample.links) =>
         /\ DOMAIN bridges = {"a", "b"}
         /\ bridges["a"] = {"work"}
         /\ bridges["b"] = {"family"}

C17_Witness ==
  /\ bridges # NoBridges
  /\ nodes = BridgeExample.nodes /\ links = BridgeExample.links
  /\ "c" \notin DOMAIN bridges

(***************************************************************************)
(* C18. For n nodes, the self node included, and m links the density shown *)
(* is 100 * m / (n * (n - 1) / 2) to the nearest tenth, and the number 0   *)
(* when n < 2; 5 nodes and 4 links give 40.0.                              *)
(***************************************************************************)
Tenths(t) == Fixed(ToString(t \div 10) \o "." \o ToString(t % 10))

\* t tenths is x = num / den rounded to one decimal: |10 x - t| <= 1/2
IsRounded(t, num, den) ==
  /\ 2 * den * t - den <= 20 * num
  /\ 20 * num <= 2 * den * t + den

C18_DensityRounded ==
  stats # NoStats =>
    LET n == Len(nodes)
        m == Len(links)
        pairs == (n * (n - 1)) \div 2
    IN  /\ n < 2 => stats.density = Number(0)
        /\ n >= 2 =>
             \E t \in {(1000 * m) \div pairs, (1000 * m) \div pairs + 1} :
               /\ stats.density = Tenths(t)
               /\ IsRounded(t, 100 * m, pairs)
        /\ (n = 5 /\ m = 4) => stats.density = Fixed("40.0")

\* Four nodes and one link: 16.666... is shown as 16.7.
C18_Witness ==
  /\ stats # NoStats
  /\ Len(nodes) = 4 /\ Len(links) = 1
  /\ stats.density = Fixed("16.7")

(***************************************************************************)
(* C19. For links with integer strengths from 1 to 10 the five buckets     *)
(* count the links of strength 8-10, 6-7, 4-5, 2-3 and 1: each link is in  *)
(* one bucket and the counts add up to the number of links; the strengths  *)
(* 1, 3, 5, 7, 9, 10 give 1, 1, 1, 1 and 2.                               *)
(***************************************************************************)
Having(range) == Cardinality({k \in 1..Len(links) : links[k].strength \in range})

C19_BucketsPartition ==
  (stats # NoStats /\ \A l \in Range(links) : l.strength \in 1..10) =>
    LET b == stats.strengthBuckets
    IN  /\ b.veryStrong = Having(8..10)
        /\ b.strong = Having(6..7)
        /\ b.moderate = Having(4..5)
        /\ b.weak = Having(2..3)
        /\ b.veryWeak = Having({1})
        /\ b.veryStrong + b.strong + b.moderate + b.weak + b.veryWeak = Len(links)
        /\ links = BucketExample.links =>
             b = [veryWeak |-> 1, weak |-> 1, moderate |-> 1, strong |-> 1,
                  veryStrong |-> 2]

C19_Witness ==
  /\ stats # NoStats
  /\ links = BucketExample.links
  /\ stats.strengthBuckets.veryStrong = 2

(***************************************************************************)
(* C20. The neglected connections shown are the links of strength 3 or     *)
(* less whose two ends are both persons of the graph, in the order of the  *)
(* links, each with its two persons: a link of strength 3 is among them,   *)
(* one of strength 4 is not, one with an end that is no person is left out.*)
(***************************************************************************)
NeglectedLinks ==
  LET keep(l) == l.strength <= 3 /\ PairOf(l) \subseteq NodeIds(nodes)
  IN  SelectSeq(links, keep)

C20_NeglectedConnections ==
  stats # NoStats =>
    LET shown == stats.neglectedConnections
    IN  /\ Len(shown) = Len(NeglectedLinks)
        /\ \A k \in 1..Len(shown) :
             /\ shown[k].strength = NeglectedLinks[k].strength
             /\ shown[k].source \in Range(nodes)
             /\ shown[k].target \in Range(nodes)
             /\ shown[k].source.id = SourceId(NeglectedLinks[k])
             /\ shown[k].target.id = TargetId(NeglectedLinks[k])
        /\ links = NeglectedExample.links =>
             /\ Len(shown) = 1
             /\ shown[1].strength = 3

C20_Witness ==
  /\ stats # NoStats
  /\ nodes = NeglectedExample.nodes /\ links = NeglectedExample.links
  /\ Len(stats.neglectedConnections) = 1

(***************************************************************************)
(* C22. Every run of the layout sees nodes and links of one render: a      *)
(* step that changes nodes or links (deletePerson, bulkAddPeople, a load,  *)
(* a reset) hands the layout the new nodes together with the new links,    *)
(* and in no state do the links the layout ran on hold a link with an      *)
(* endpoint that is absent from the nodes it ran on.                       *)
(***************************************************************************)
CopyIds == {nodesCopy[i].id : i \in 1..Len(nodesCopy)}

Dangling(ls, ids) ==
  {i \in 1..Len(ls) : SourceId(ls[i]) \notin ids \/ TargetId(ls[i]) \notin ids}

Styled(styles, ls, sel) ==
  \A i \in 1..Len(ls) :
    IF SourceId(ls[i]) = sel.id \/ TargetId(ls[i]) = sel.id
    THEN /\ styles[i].opacity = OpacityEmphasized
         /\ styles[i].stroke = groupColors(sel.group, customGroups, defaultColorOverrides)
    ELSE styles[i].opacity = OpacityDimmed

C23_SelectionStylesEdges ==
  selectedNode # NoNode => Styled(linkStyles, linksCopy, selectedNode)

\* C23, the part the code keeps: the paths are styled by the selection in
\* the state that follows a click on a node.
C23_StyledAfterClick ==
  [][ Handled("nodeClick") =>
        Styled(linkStyles', linksCopy', selectedNode') ]_vars

(***************************************************************************)
(* C24. saveToServer is called only after a handler of the user has run    *)
(* since the load: the end of a load, resolved or fallen back to the       *)
(* sample data, schedules no save by itself.                               *)
(***************************************************************************)
SaveIssued == last'.op = "saveToServer"

C24_SaveOnlyAfterUserChange ==
  [][ SaveIssued => events > 0 ]_vars

\* C24, the part the code keeps: no save is issued before the load is over,
\* and a save carries the snapshot of the render that scheduled it.
C24_NoSaveBeforeLoaded ==
  [][ SaveIssued => isLoaded /\ loadPc = "done" /\ lastCall' # NoSnapshot ]_vars

(***************************************************************************)
(* C25. Once the user has stopped editing and no save is pending or in     *)
(* flight, the snapshot stored on the server for the account is the        *)
(* snapshot the client holds: of the saves in flight together, the one     *)
(* with the older snapshot is never the one the server handles last.       *)
(***************************************************************************)
StoredSnapshot == rowBody(find(networkData, ClientUser))

SaveQuiet ==
  /\ isAuthenticated
  /\ timers = {}
  /\ inFlight = EmptyBag
  /\ find(networkData, ClientUser) # NoRow

C25_StoredIsLatest ==
  SaveQuiet => StoredSnapshot = Snapshot

\* C25, the part the code keeps: the server stores the snapshot of the
\* request it handled last, one record for the account.
C25_StoredWasSent ==
  /\ [](find(networkData, ClientUser) # NoRow =>
          /\ StoredSnapshot = lastSaveOf(ClientUser)
          /\ Len(rowsOf(networkData, ClientUser)) = 1)
  /\ [][ last'.op = "saveResolved" =>
           \E snap \in BagToSet(inFlight) :
             /\ inFlight' = settled(inFlight, snap)
             /\ rowBody(find(networkData', ClientUser)) = snap ]_vars

(***************************************************************************)
(* C26. centeredNodeId is the id of a person of the node list, and the     *)
(* layout has exactly one node with that id, seeded at the center: in      *)
(* every state reached through set-as-center, delete and reset.            *)
(***************************************************************************)
CenterNodes == {i \in 1..Len(nodesCopy) : nodesCopy[i].id = centeredNodeId}

C26_CenterIsPresent ==
  /\ centeredNodeId \in NodeIds(nodes)
  /\ Cardinality(CenterNodes) = 1
  /\ \A i \in CenterNodes : nodesCopy[i].seed = Center

\* C26, the part the code keeps: the self node is never removed, and the
\* center changes through set-as-center alone.
C26_SelfStays ==
  /\ [](SelfId \in NodeIds(nodes))
  /\ [][ centeredNodeId' # centeredNodeId => Handled("setAsCenter") ]_vars

(***************************************************************************)
(* C27. No two accounts share an email: whatever way the steps of          *)
(* concurrent POST /api/auth/register requests with one email interleave,  *)
(* with a database or with memoryStore, the users table holds one user     *)
(* with that email at most.                                                *)
(***************************************************************************)
UsersWith(email) == {i \in 1..Len(users) : users[i].email = email}

C27_EmailsUnique ==
  \A email \in Emails : Cardinality(UsersWith(email)) <= 1

\* C27, the part the code keeps: with a database, whose users table
\* refuses a second row with an email it holds, the emails are unique.
C27_EmailsUniqueInDatabase ==
  db => \A email \in Emails : Cardinality(UsersWith(email)) <= 1

(***************************************************************************)
(* C28. The store holds one network_data record per user id at most,       *)
(* whatever way the steps of concurrent saveNetworkData calls for one user *)
(* (of PUT /api/network, of the GET that creates the defaults, of          *)
(* register, of reset) interleave.                                         *)
(***************************************************************************)
RecordUsers == {networkData[i].user_id : i \in 1..Len(networkData)}

C28_OneRecordPerUser ==
  \A userId \in RecordUsers : Len(rowsOf(networkData, userId)) = 1

\* C28, the part the code keeps: with memoryStore, where saveNetworkData
\* runs in one piece, a user has one record at most.
C28_OneRecordPerUserInMemory ==
  ~db => \A userId \in RecordUsers : Len(rowsOf(networkData, userId)) = 1

(***************************************************************************)
(* C29. A password reset token changes a password once at most: of the     *)
(* POST /api/auth/reset-password requests with one token, the concurrent   *)
(* ones included, one at most is answered 200 and sets a password; the     *)
(* others are rejected with 400.                                           *)
(***************************************************************************)
ResetsDone(token) ==
  {r \in 1..Len(authRequests) :
     /\ authRequests[r].kind = "reset"
     /\ authRequests[r].token = token
     /\ authRequests[r].reply.status = 200}

C29_TokenUsedOnce ==
  \A token \in ResetTokens : Cardinality(ResetsDone(token)) <= 1

\* C29, the part the code keeps: a request received when its token is not
\* in the table, or is there and has expired, is answered 400 and changes
\* no password, and the expired token is deleted when the new password is
\* long enough to pass the validation; the request that sets a password
\* deletes its token.
ResetReceived ==
  /\ Len(authRequests') = Len(authRequests) + 1
  /\ authRequests'[Len(authRequests')].kind = "reset"

C29_SpentOrExpiredTokenRejected ==
  [][ /\ ResetReceived =>
          LET req == authRequests'[Len(authRequests')]
              resetToken == findPasswordResetToken(passwordResetTokens, req.token)
          IN  (resetToken = NoRow \/ expired(resetToken, serverNow)) =>
                /\ req.reply.status = 400
                /\ passwords' = passwords
                /\ req.password.length >= MinPasswordLength =>
                     findPasswordResetToken(passwordResetTokens', req.token) = NoRow
      /\ \A token \in ResetTokens :
           Cardinality(ResetsDone(token))' > Cardinality(ResetsDone(token)) =>
             findPasswordResetToken(passwordResetTokens', token) = NoRow
    ]_vars

(***************************************************************************)
(* C30. The response of POST /api/auth/forgot-password to a request with   *)
(* an email, its status and its body, is the same for the email of an      *)
(* account and for an email of no account, whatever tokens the store       *)
(* holds.                                                                  *)
(***************************************************************************)
ForgotsOf(known) ==
  {r \in 1..Len(authRequests) :
     /\ authRequests[r].kind = "forgot"
     /\ authRequests[r].email # NoEmail
     /\ (authRequests[r].user_id # 0) = known}

=============================================================================
